---- MODULE Spec2Model ----
(***************************************************************************)
(* Verification model of the tokken Figma extraction engine                *)
(* (FigmaExtractor: retry wrapper, extract() pipeline, asset export,       *)
(* component extraction and the node-tree traversals).                     *)
(***************************************************************************)
EXTENDS Integers, Sequences, FiniteSets, TLC

VARIABLES
    fileData,       \* the FigmaFile served by the API / given to the pure extractors
    pass,           \* pure extractors: which function has been applied ("idle" before)
    result,         \* pure extractors: the value the function returned
    walkRoot,       \* component-style pass: the node handed to extractComponentStyles
    pc,             \* extract(): the await point the run is suspended at
    i,              \* fetchWithRetry: loop index of the active call
    sleep,          \* fetchWithRetry: pending setTimeout delay in ms (0 = none)
    calls,          \* number of times fn was invoked by the active/most recent call
    lastStatus,     \* outcome of the most recent fn invocation (200 = fulfilled)
    thrown,         \* error the most recent fetchWithRetry call threw, or NoError
    rejection,      \* error extract() rejected with, or NoError
    variablesData,  \* what fetchVariables returned: "pending", "null" or "data"
    themes,         \* extract(): local `themes` ("undefined" or "present")
    batchStart,     \* export loops: loop index i of the current batch
    dl,             \* per export kind, per list position: state of that download closure
    maps,           \* per export kind: name -> path map filled by the downloads
    docs            \* output documents written by this run

vars == <<fileData, pass, result, walkRoot, pc, i, sleep, calls, lastStatus,
          thrown, rejection, variablesData, themes, batchStart, dl, maps, docs>>

pureVars == <<pass, result, walkRoot>>
runVars == <<pc, i, sleep, calls, lastStatus, thrown, rejection, variablesData,
             themes, batchStart, dl, maps, docs>>

----------------------------------------------------------------------------
(* Bounds of the model *)

MaxNodes == 3       \* nodes below the document in the generated trees
MaxRecords == 3     \* component metadata records in the generated files
MaxUi == 4          \* UI components of the export run
MaxIcons == 3       \* icon components of the export run
MaxFrames == 2      \* top-level frames of the screenshot run
MaxStyles == 2      \* entries of the published-style metadata
BatchSize == 3      \* export batch size (50 in the source, scaled down)

(* Program constants *)

maxRetries == 3
delay == 1000
FrameCap == 20

UndefinedName == <<"undefined">>   \* `undefined` where a string is expected
NoError == [kind |-> "none", attempt |-> 0, status |-> 0]

----------------------------------------------------------------------------
(* Generic helpers *)

Range(s) == {s[k] : k \in DOMAIN s}
Min(a, b) == IF a < b THEN a ELSE b
Indices(n) == [k \in 1..n |-> k]

----------------------------------------------------------------------------
(* Strings are sequences of one-character strings, so that prefix tests,   *)
(* split, the icon pattern and file-name sanitising are computed.          *)

LowerCase == <<"a","b","c","d","e","f","g","h","i","j","k","l","m",
               "n","o","p","q","r","s","t","u","v","w","x","y","z">>
UpperCase == <<"A","B","C","D","E","F","G","H","I","J","K","L","M",
               "N","O","P","Q","R","S","T","U","V","W","X","Y","Z">>
Digits == <<"0","1","2","3","4","5","6","7","8","9">>
HexDigits == <<"0","1","2","3","4","5","6","7","8","9","a","b","c","d","e","f">>

IndexOf(seq, c) == CHOOSE k \in DOMAIN seq : seq[k] = c

toLowerCase(c) == IF c \in Range(UpperCase) THEN LowerCase[IndexOf(UpperCase, c)] ELSE c

startsWith(name, c) == Len(name) > 0 /\ name[1] = c

\* name.split('/')[0]
splitFirst(name) ==
    IF \E k \in DOMAIN name : name[k] = "/"
    THEN SubSeq(name, 1, (CHOOSE k \in DOMAIN name :
                             name[k] = "/" /\ \A j \in 1..(k - 1) : name[j] # "/") - 1)
    ELSE name

\* name.replace(/[^a-z0-9]/gi, '-').toLowerCase()
sanitize(name) ==
    [k \in DOMAIN name |->
        IF name[k] \in Range(LowerCase) \cup Range(UpperCase) \cup Range(Digits)
        THEN toLowerCase(name[k]) ELSE "-"]

\* /^[a-z0-9_/\-]+$/.test(name)
iconPattern(name) ==
    /\ Len(name) > 0
    /\ \A k \in DOMAIN name :
          name[k] \in Range(LowerCase) \cup Range(Digits) \cup {"_", "/", "-"}

\* Math.round(n * 255).toString(16).padStart(2, '0'), n given in thousandths
toHex(n) ==
    LET v == (510 * n + 1000) \div 2000
    IN <<HexDigits[(v \div 16) + 1], HexDigits[(v % 16) + 1]>>

rgbToHex(c) == <<"#">> \o toHex(c.r) \o toHex(c.g) \o toHex(c.b)

----------------------------------------------------------------------------
(* The document tree.  Node 0 is the document; node k >= 1 has parent      *)
(* f.parent[k] and attributes f.node[k]; children are ordered by id.       *)

NoColor == [r |-> -1, g |-> -1, b |-> -1]
Red == [r |-> 1000, g |-> 0, b |-> 0]
NearRed == [r |-> 999, g |-> 1, b |-> 0]
Blue == [r |-> 0, g |-> 0, b |-> 1000]

Paint(t, c, v) == [type |-> t, color |-> c, visible |-> v]

\* cornerRadius and the corner radii are in tenths of a pixel; NoRadius and
\* the empty tuple stand for an attribute the node does not carry
NoRadius == -1

NodeRec(nm, ty, fl, st, pr) ==
    [name |-> nm, type |-> ty, fills |-> fl, strokes |-> st, props |-> pr,
     cornerRadius |-> NoRadius, rectangleCornerRadii |-> <<>>, effects |-> <<>>]

\* an effect of the API; blendMode is one of the attributes that the
\* extractor does not copy
Effect(ty, vis, rad, spr, blend) ==
    [type |-> ty, visible |-> vis, radius |-> rad, spread |-> spr, blendMode |-> blend]

DocumentNode == NodeRec(<<"f">>, "DOCUMENT", <<>>, <<>>, {})

NodeIds(f) == 0..Len(f.parent)
NodeOf(f, n) == IF n = 0 THEN DocumentNode ELSE f.node[n]
Children(f, n) == SelectSeq(Indices(Len(f.parent)), LAMBDA k : f.parent[k] = n)

----------------------------------------------------------------------------
(* extractRawTokens: the raw-token pass.  acc.colors is the hex -> count   *)
(* map, acc.visited the order in which the per-node logic ran.             *)

addColor(colors, hex) ==
    IF hex \in DOMAIN colors
    THEN [colors EXCEPT ![hex] = @ + 1]
    ELSE (hex :> 1) @@ colors

countsAsColor(p) == p.type = "SOLID" /\ p.color # NoColor /\ p.visible # "false"

RECURSIVE addPaints(_, _)
addPaints(colors, paints) ==
    IF paints = <<>> THEN colors
    ELSE addPaints(IF countsAsColor(Head(paints))
                   THEN addColor(colors, rgbToHex(Head(paints).color))
                   ELSE colors,
                   Tail(paints))

RECURSIVE traverseNodeEach(_, _, _)
RECURSIVE traverseNode(_, _, _)
traverseNodeSkipLast(f, n, acc) ==
    LET kids == Children(f, n)
        visitedAcc == [colors |-> addPaints(addPaints(acc.colors, NodeOf(f, n).fills),
                                            NodeOf(f, n).strokes),
                       visited |-> Append(acc.visited, n)]
    IN traverseNodeEach(f, IF kids = <<>> THEN kids ELSE SubSeq(kids, 1, Len(kids) - 1),
                        visitedAcc)
traverseNode(f, n, acc) ==
    LET visitedAcc == [colors |-> addPaints(addPaints(acc.colors, NodeOf(f, n).fills),
                                            NodeOf(f, n).strokes),
                       visited |-> Append(acc.visited, n)]
    IN traverseNodeEach(f, Children(f, n), visitedAcc)
traverseNodeEach(f, kids, acc) ==
    IF kids = <<>> THEN acc
    ELSE traverseNodeEach(f, Tail(kids), traverseNode(f, Head(kids), acc))

extractRawTokens(f) == traverseNode(f, 0, [colors |-> <<>>, visited |-> <<>>])

----------------------------------------------------------------------------
(* extractPublishedStyles.indexNodes: the id-index pass.                   *)

RECURSIVE indexNodesEach(_, _, _)
RECURSIVE indexNodes(_, _, _)
indexNodesChildrenFirst(f, n, acc) ==
    LET below == indexNodesEach(f, Children(f, n), acc)
    IN [nodeMap |-> (n :> NodeOf(f, n)) @@ below.nodeMap,
        visited |-> Append(below.visited, n)]
indexNodes(f, n, acc) ==
    indexNodesEach(f, Children(f, n),
                   [nodeMap |-> (n :> NodeOf(f, n)) @@ acc.nodeMap,
                    visited |-> Append(acc.visited, n)])
indexNodesEach(f, kids, acc) ==
    IF kids = <<>> THEN acc
    ELSE indexNodesEach(f, Tail(kids), indexNodes(f, Head(kids), acc))

indexDocument(f) == indexNodes(f, 0, [nodeMap |-> <<>>, visited |-> <<>>])

----------------------------------------------------------------------------
(* extractComponentStyles: the component-style pass (colour collection).   *)

\* Set.add keeps first-insertion order
setAdd(s, x) == IF x \in Range(s) THEN s ELSE Append(s, x)

RECURSIVE colorSetAdd(_, _)
colorSetAdd(colorSet, paints) ==
    IF paints = <<>> THEN colorSet
    ELSE colorSetAdd(IF countsAsColor(Head(paints))
                     THEN setAdd(colorSet, rgbToHex(Head(paints).color))
                     ELSE colorSet,
                     Tail(paints))

\* radiusSet.add(n.rectangleCornerRadii.join('-')) or
\* radiusSet.add(String(n.cornerRadius)); a key is kept as its tuple of numbers
radiusSetAdd(radiusSet, node) ==
    IF node.rectangleCornerRadii # <<>> THEN setAdd(radiusSet, node.rectangleCornerRadii)
    ELSE IF node.cornerRadius # NoRadius /\ node.cornerRadius > 0
    THEN setAdd(radiusSet, <<node.cornerRadius>>)
    ELSE radiusSet

\* the object stored for an effect (offset and colour are left out of the model)
effectValue(effect) ==
    [type |-> effect.type, radius |-> effect.radius, spread |-> effect.spread]

\* const key = JSON.stringify(effect)
effectKey(effect) == effect

\* effectMap is kept as its entries in insertion order
RECURSIVE effectMapAdd(_, _)
effectMapAdd(effectMap, effects) ==
    IF effects = <<>> THEN effectMap
    ELSE effectMapAdd(
            IF Head(effects).visible = "false" THEN effectMap
            ELSE IF \E k \in DOMAIN effectMap : effectMap[k].key = effectKey(Head(effects))
            THEN effectMap
            ELSE Append(effectMap, [key |-> effectKey(Head(effects)),
                                    value |-> effectValue(Head(effects))]),
            Tail(effects))

\* the per-node logic of traverse
visitNode(node, n, acc) ==
    [colors |-> colorSetAdd(colorSetAdd(acc.colors, node.fills), node.strokes),
     radiusSet |-> radiusSetAdd(acc.radiusSet, node),
     effectMap |-> effectMapAdd(acc.effectMap, node.effects),
     visited |-> Append(acc.visited, n)]

RECURSIVE traverseEach(_, _, _)
RECURSIVE traverse(_, _, _)
traverseTwiceFirstChild(f, n, acc) ==
    LET kids == Children(f, n)
    IN traverseEach(f, IF kids = <<>> THEN kids ELSE <<Head(kids)>> \o kids,
                    visitNode(NodeOf(f, n), n, acc))
traverse(f, n, acc) ==
    traverseEach(f, Children(f, n), visitNode(NodeOf(f, n), n, acc))
traverseEach(f, kids, acc) ==
    IF kids = <<>> THEN acc
    ELSE traverseEach(f, Tail(kids), traverse(f, Head(kids), acc))

\* Math.round on a number given in tenths
mathRound(tenths) == (tenths + 5) \div 10

roundParts(key) == [k \in DOMAIN key |-> mathRound(key[k])]

\* for (const key of radiusSet) { ... if (seenRadii.has(roundedKey)) continue; ... }
\* a radius is kept as the tuple of its rounded parts: one part for a number,
\* four for the corner array
RECURSIVE parseRadii(_, _, _)
keepRounded(parts, rest, seenRadii, radii) ==
    IF parts \in seenRadii THEN parseRadii(rest, seenRadii, radii)
    ELSE parseRadii(rest, seenRadii \cup {parts}, Append(radii, parts))
parseRadii(keys, seenRadii, radii) ==
    IF keys = <<>> THEN radii
    ELSE keepRounded(roundParts(Head(keys)), Tail(keys), seenRadii, radii)

\* typeof a === 'number' ? a : a[0]
primaryCorner(radius) == radius[1]

\* radii.sort((a, b) => primary(a) - primary(b)): a stable sort
RECURSIVE insertRadius(_, _)
insertRadius(sorted, radius) ==
    IF sorted = <<>> THEN <<radius>>
    ELSE IF primaryCorner(sorted[Len(sorted)]) <= primaryCorner(radius)
    THEN Append(sorted, radius)
    ELSE Append(insertRadius(SubSeq(sorted, 1, Len(sorted) - 1), radius), sorted[Len(sorted)])

RECURSIVE sortRadii(_, _)
sortRadii(radii, sorted) ==
    IF radii = <<>> THEN sorted
    ELSE sortRadii(Tail(radii), insertRadius(sorted, Head(radii)))

\* the returned ComponentStyle (colours, radii, effects) and the visiting order
componentStyle(acc) ==
    [colors |-> acc.colors,
     radii |-> sortRadii(parseRadii(acc.radiusSet, {}, <<>>), <<>>),
     effects |-> [k \in DOMAIN acc.effectMap |-> acc.effectMap[k].value],
     visited |-> acc.visited]

EmptyCollections == [colors |-> <<>>, radiusSet |-> <<>>, effectMap |-> <<>>, visited |-> <<>>]

\* variant that traverses the node itself whatever its type
extractComponentStylesWithContainer(f, n) ==
    componentStyle(traverse(f, n, EmptyCollections))

\* A COMPONENT_SET node of the API always carries a children array (maybe empty).
extractComponentStyles(f, n) ==
    componentStyle(IF NodeOf(f, n).type = "COMPONENT_SET"
                   THEN traverseEach(f, Children(f, n), EmptyCollections)
                   ELSE traverse(f, n, EmptyCollections))

----------------------------------------------------------------------------
(* String.prototype.localeCompare on the alphabet used by the model:       *)
(* punctuation < digits < letters, letters compared without case first,    *)
(* lower case before upper case on a tie.                                  *)

charRank(c) ==
    IF c = "_" THEN 1
    ELSE IF c = "-" THEN 2
    ELSE IF c = "." THEN 3
    ELSE IF c = "/" THEN 4
    ELSE IF c \in Range(Digits) THEN 10 + IndexOf(Digits, c)
    ELSE 30 + IndexOf(LowerCase, toLowerCase(c))

caseRank(c) == IF c \in Range(UpperCase) THEN 1 ELSE 0

rankOf(level, c) == IF level = "primary" THEN charRank(c) ELSE caseRank(c)

\* lexicographic comparison of two strings at one collation level: -1, 0 or 1
RECURSIVE compareAt(_, _, _)
compareAt(level, a, b) ==
    IF a = <<>> /\ b = <<>> THEN 0
    ELSE IF a = <<>> THEN -1
    ELSE IF b = <<>> THEN 1
    ELSE IF rankOf(level, Head(a)) < rankOf(level, Head(b)) THEN -1
    ELSE IF rankOf(level, Head(a)) > rankOf(level, Head(b)) THEN 1
    ELSE compareAt(level, Tail(a), Tail(b))

localeCompare(a, b) ==
    IF compareAt("primary", a, b) # 0 THEN compareAt("primary", a, b)
    ELSE compareAt("tertiary", a, b)

\* Array.prototype.sort((a, b) => a.name.localeCompare(b.name)): stable
RECURSIVE insertByName(_, _)
insertByName(sorted, c) ==
    IF sorted = <<>> THEN <<c>>
    ELSE IF localeCompare(sorted[Len(sorted)].name, c.name) <= 0 THEN Append(sorted, c)
    ELSE Append(insertByName(SubSeq(sorted, 1, Len(sorted) - 1), c), sorted[Len(sorted)])

RECURSIVE sortByName(_)
sortByName(cs) ==
    IF cs = <<>> THEN <<>>
    ELSE insertByName(sortByName(SubSeq(cs, 1, Len(cs) - 1)), cs[Len(cs)])

----------------------------------------------------------------------------
(* extractComponents                                                       *)

NoSet == -1     \* a component record without componentSetId

CompMeta(id, nm, setId) == [id |-> id, name |-> nm, componentSetId |-> setId]

\* indexNodes(node, group) of extractComponents
RECURSIVE indexNodesGroupEach(_, _, _, _)
RECURSIVE indexNodesGroup(_, _, _, _)
indexNodesGroup(f, n, group, acc) ==
    indexNodesGroupEach(f, Children(f, n), group,
        [acc EXCEPT !.nodeMap = (n :> NodeOf(f, n)) @@ @,
                    !.nodeFrameMap = IF group # <<>> THEN (n :> group) @@ @ ELSE @])
indexNodesGroupEach(f, kids, group, acc) ==
    IF kids = <<>> THEN acc
    ELSE indexNodesGroupEach(f, Tail(kids), group, indexNodesGroup(f, Head(kids), group, acc))

\* for (const page of fileData.document.children) { ... }
RECURSIVE indexPages(_, _, _)
indexPagesOwnName(f, pages, acc) ==
    IF pages = <<>> THEN acc
    ELSE LET page == Head(pages)
             kids == Children(f, page)
             a1 == [acc EXCEPT !.nodeMap = (page :> NodeOf(f, page)) @@ @,
                               !.pageOrder = Append(@, NodeOf(f, page).name)]
             a2 == IF kids = <<>> THEN a1
                   ELSE indexNodesGroupEach(f, Tail(kids), NodeOf(f, page).name,
                            indexNodesGroup(f, Head(kids), NodeOf(f, Head(kids)).name, a1))
         IN indexPages(f, Tail(pages), a2)
indexPages(f, pages, acc) ==
    IF pages = <<>> THEN acc
    ELSE LET page == Head(pages)
             a1 == [acc EXCEPT !.nodeMap = (page :> NodeOf(f, page)) @@ @,
                               !.pageOrder = Append(@, NodeOf(f, page).name)]
         IN indexPages(f, Tail(pages),
                       indexNodesGroupEach(f, Children(f, page), NodeOf(f, page).name, a1))

componentIndex(f) ==
    indexPages(f, Children(f, 0), [nodeMap |-> <<>>, nodeFrameMap |-> <<>>, pageOrder |-> <<>>])

mapGet(m, k) == IF k \in DOMAIN m THEN m[k] ELSE UndefinedName

ExtractedComponent(nm, vs, pr, sn, id, st, gr) ==
    [name |-> nm, variants |-> vs, properties |-> pr, setName |-> sn,
     nodeId |-> id, styles |-> st, group |-> gr]

propertiesOf(idx, id) == IF id \in DOMAIN idx.nodeMap THEN idx.nodeMap[id].props ELSE {}
stylesOf(f, idx, id) ==
    IF id \in DOMAIN idx.nodeMap
    THEN [defined |-> TRUE, colors |-> extractComponentStyles(f, id).colors]
    ELSE [defined |-> FALSE, colors |-> <<>>]

setPosition(sets, setId) == CHOOSE k \in DOMAIN sets : sets[k].setId = setId

\* for (const [nodeId, meta] of Object.entries(componentsMeta)) { ... }
RECURSIVE groupComponents(_, _, _, _)
groupComponentsKeepPrivate(f, idx, recs, acc) ==
    IF recs = <<>> THEN acc
    ELSE LET meta == Head(recs)
             setId == meta.componentSetId
             hasSetMeta == setId \in DOMAIN f.componentSets
             setMeta == f.componentSets[setId]
         IN IF setId # NoSet
            THEN IF hasSetMeta /\ startsWith(setMeta.name, ".")
                 THEN groupComponents(f, idx, Tail(recs), acc)
                 ELSE IF \E k \in DOMAIN acc.sets : acc.sets[k].setId = setId
                 THEN groupComponents(f, idx, Tail(recs),
                        [acc EXCEPT !.sets[setPosition(acc.sets, setId)] =
                            [@ EXCEPT !.variants = Append(@, meta.name),
                                      !.variantNodeIds = Append(@, meta.id)]])
                 ELSE groupComponents(f, idx, Tail(recs),
                        [acc EXCEPT !.sets = Append(@,
                            [setId |-> setId,
                             meta |-> IF hasSetMeta THEN setMeta
                                      ELSE [name |-> splitFirst(meta.name)],
                             variants |-> <<meta.name>>,
                             variantNodeIds |-> <<meta.id>>])])
            ELSE IF startsWith(meta.name, ".") THEN groupComponents(f, idx, Tail(recs), acc)
            ELSE groupComponents(f, idx, Tail(recs),
                    [acc EXCEPT !.standalone = Append(@,
                        ExtractedComponent(meta.name, <<>>, propertiesOf(idx, meta.id), UndefinedName,
                                           meta.id, stylesOf(f, idx, meta.id),
                                           mapGet(idx.nodeFrameMap, meta.id)))])
groupComponents(f, idx, recs, acc) ==
    IF recs = <<>> THEN acc
    ELSE LET meta == Head(recs)
             setId == meta.componentSetId
             hasSetMeta == setId \in DOMAIN f.componentSets
             setMeta == f.componentSets[setId]
         IN IF startsWith(meta.name, ".") THEN groupComponents(f, idx, Tail(recs), acc)
            ELSE IF setId # NoSet
            THEN IF hasSetMeta /\ startsWith(setMeta.name, ".")
                 THEN groupComponents(f, idx, Tail(recs), acc)
                 ELSE IF \E k \in DOMAIN acc.sets : acc.sets[k].setId = setId
                 THEN groupComponents(f, idx, Tail(recs),
                        [acc EXCEPT !.sets[setPosition(acc.sets, setId)] =
                            [@ EXCEPT !.variants = Append(@, meta.name),
                                      !.variantNodeIds = Append(@, meta.id)]])
                 ELSE groupComponents(f, idx, Tail(recs),
                        [acc EXCEPT !.sets = Append(@,
                            [setId |-> setId,
                             meta |-> IF hasSetMeta THEN setMeta
                                      ELSE [name |-> splitFirst(meta.name)],
                             variants |-> <<meta.name>>,
                             variantNodeIds |-> <<meta.id>>])])
            ELSE groupComponents(f, idx, Tail(recs),
                    [acc EXCEPT !.standalone = Append(@,
                        ExtractedComponent(meta.name, <<>>, propertiesOf(idx, meta.id), UndefinedName,
                                           meta.id, stylesOf(f, idx, meta.id),
                                           mapGet(idx.nodeFrameMap, meta.id)))])

\* for (const [setId, data] of setComponents) { ... }
RECURSIVE convertSets(_, _, _, _)
convertSetsUseSetId(f, idx, sets, out) ==
    IF sets = <<>> THEN out
    ELSE LET data == Head(sets)
         IN IF startsWith(data.meta.name, ".") THEN convertSets(f, idx, Tail(sets), out)
            ELSE convertSets(f, idx, Tail(sets),
                    Append(out,
                        ExtractedComponent(data.meta.name, data.variants,
                                           propertiesOf(idx, data.setId), data.meta.name,
                                           data.setId,
                                           stylesOf(f, idx, data.setId),
                                           mapGet(idx.nodeFrameMap, data.setId))))
convertSets(f, idx, sets, out) ==
    IF sets = <<>> THEN out
    ELSE LET data == Head(sets)
         IN IF startsWith(data.meta.name, ".") THEN convertSets(f, idx, Tail(sets), out)
            ELSE convertSets(f, idx, Tail(sets),
                    Append(out,
                        ExtractedComponent(data.meta.name, data.variants,
                                           propertiesOf(idx, data.setId), data.meta.name,
                                           IF data.variantNodeIds # <<>>
                                           THEN data.variantNodeIds[1] ELSE data.setId,
                                           stylesOf(f, idx, data.setId),
                                           mapGet(idx.nodeFrameMap, data.setId))))

extractComponents(f) ==
    LET idx == componentIndex(f)
        grouped == groupComponents(f, idx, f.components, [sets |-> <<>>, standalone |-> <<>>])
    IN [components |-> sortByName(convertSets(f, idx, grouped.sets, grouped.standalone)),
        pageOrder |-> idx.pageOrder]

\* isIcon(comp)
isIcon(comp) ==
    comp.variants = <<>> /\ comp.properties = {} /\ iconPattern(comp.name)

----------------------------------------------------------------------------
(* Inputs of the pure extractors                                           *)

SolidRed == Paint("SOLID", Red, "undefined")
SolidNearRed == Paint("SOLID", NearRed, "true")
SolidBlue == Paint("SOLID", Blue, "undefined")
HiddenBlue == Paint("SOLID", Blue, "false")
Gradient == Paint("GRADIENT_LINEAR", NoColor, "undefined")
SolidNoColor == Paint("SOLID", NoColor, "undefined")

\* fills/strokes combinations a generated node may carry
NodePaints ==
    { [fills |-> <<>>, strokes |-> <<>>],
      [fills |-> <<SolidRed, HiddenBlue>>, strokes |-> <<SolidBlue>>],
      [fills |-> <<SolidNearRed, Gradient, SolidNoColor>>, strokes |-> <<SolidRed>>] }

ParentVectors(n) == { p \in [1..n -> 0..(n - 1)] : \A k \in 1..n : p[k] < k }

WalkFiles ==
    { [parent |-> p,
       node |-> [k \in 1..MaxNodes |->
                    NodeRec(<<"n">>, ty[k], pt[k].fills, pt[k].strokes, {})],
       components |-> <<>>, componentSets |-> <<>>, styles |-> <<>>] :
      p \in ParentVectors(MaxNodes),
      ty \in [1..MaxNodes -> {"FRAME", "COMPONENT_SET"}],
      pt \in [1..MaxNodes -> NodePaints] }

\* The tree of the component files: pages A (1), D (2) and E (3, empty);
\* set S1 (4) with variants 5, 6 on A; frame 7 on D holding set S2 (8)
\* with variant 9; component 10 directly on D.
SetOne == 4
SetTwo == 8
ComponentTreeParent == <<0, 0, 0, 1, 4, 4, 2, 7, 8, 2>>
ComponentTreeNode ==
    << NodeRec(<<"A">>, "CANVAS", <<>>, <<>>, {}),
       NodeRec(<<"D">>, "CANVAS", <<>>, <<>>, {}),
       NodeRec(<<"E">>, "CANVAS", <<>>, <<>>, {}),
       NodeRec(<<"B">>, "COMPONENT_SET", <<SolidBlue>>, <<>>, {"State"}),
       NodeRec(<<"x">>, "COMPONENT", <<SolidRed>>, <<>>, {}),
       NodeRec(<<"y">>, "COMPONENT", <<SolidNearRed>>, <<SolidBlue>>, {}),
       NodeRec(<<"w">>, "FRAME", <<>>, <<>>, {}),
       NodeRec(<<"S">>, "COMPONENT_SET", <<>>, <<>>, {}),
       NodeRec(<<"z">>, "COMPONENT", <<HiddenBlue>>, <<>>, {}),
       NodeRec(<<"c">>, "COMPONENT", <<SolidBlue>>, <<>>, {}) >>

\* node ids given to the component records, by position (11 and above: not in the tree)
RecordIdOrders ==
    { [k \in 1..(MaxRecords + 1) |-> <<5, 6, 9, 10>>[((k - 1) % 4) + 1] + 10 * ((k - 1) \div 4)],
      [k \in 1..(MaxRecords + 1) |-> <<10, 11, 6, 5>>[((k - 1) % 4) + 1] + 10 * ((k - 1) \div 4)] }

RecordNames == { <<"B">>, <<".", "B">>, <<"a", "/", "b">> }
SetNames == { <<"B">>, <<".", "S">> }

RecordLists ==
    UNION { { [k \in 1..n |-> CompMeta(ids[k], nm[k], st[k])] :
              ids \in RecordIdOrders,
              nm \in [1..n -> RecordNames],
              st \in [1..n -> {NoSet, SetOne, SetTwo}] } : n \in 0..MaxRecords }

SetMetas ==
    UNION { [D -> { [name |-> nm] : nm \in SetNames }] : D \in SUBSET {SetOne, SetTwo} }

ComponentFiles ==
    { [parent |-> ComponentTreeParent, node |-> ComponentTreeNode,
       components |-> recs, componentSets |-> sets, styles |-> <<>>] :
      recs \in RecordLists, sets \in SetMetas }

----------------------------------------------------------------------------
(* The pure extractors as operations on an input file                      *)

NoResult == [none |-> TRUE]

RunInit(files) ==
    /\ fileData \in files
    /\ pass = "idle"
    /\ result = NoResult
    /\ walkRoot = 0
    /\ pc = "unused"
    /\ i = 0 /\ sleep = 0 /\ calls = 0 /\ lastStatus = 0
    /\ thrown = NoError /\ rejection = NoError
    /\ variablesData = "pending" /\ themes = "undefined"
    /\ batchStart = 0
    /\ dl = <<>> /\ maps = <<>> /\ docs = {}

RunExtractRawTokens ==
    /\ pass = "idle"
    /\ pass' = "extractRawTokens"
    /\ result' = extractRawTokens(fileData)
    /\ UNCHANGED <<fileData, walkRoot, runVars>>

RunIndexNodes ==
    /\ pass = "idle"
    /\ pass' = "indexNodes"
    /\ result' = [ids |-> DOMAIN indexDocument(fileData).nodeMap,
                  visited |-> indexDocument(fileData).visited]
    /\ UNCHANGED <<fileData, walkRoot, runVars>>

RunExtractComponentStyles ==
    /\ pass = "idle"
    /\ \E n \in NodeIds(fileData) :
          /\ walkRoot' = n
          /\ result' = extractComponentStyles(fileData, n)
    /\ pass' = "extractComponentStyles"
    /\ UNCHANGED <<fileData, runVars>>

RunExtractComponents ==
    /\ pass = "idle"
    /\ pass' = "extractComponents"
    /\ result' = extractComponents(fileData)
    /\ UNCHANGED <<fileData, walkRoot, runVars>>

InitWalk == RunInit(WalkFiles)
NextWalk == RunExtractRawTokens \/ RunIndexNodes \/ RunExtractComponentStyles
SpecWalk == InitWalk /\ [][NextWalk]_vars

\* Trees whose nodes carry fills, corner radii and effects; node 1 is a
\* variant set or a plain component.
Shadow(blend) == Effect("DROP_SHADOW", "true", 4, 0, blend)
HiddenBlur == Effect("LAYER_BLUR", "false", 8, 0, "NORMAL")

StyleKit(fl, cr, rr, ef) ==
    [fills |-> fl, cornerRadius |-> cr, rectangleCornerRadii |-> rr, effects |-> ef]

StyleKits ==
    { StyleKit(<<SolidRed>>, 14, <<>>, <<Shadow("NORMAL")>>),
      StyleKit(<<>>, 10, <<>>, <<>>),
      StyleKit(<<SolidBlue>>, NoRadius, <<10, 40, 40, 40>>, <<Shadow("MULTIPLY"), HiddenBlur>>),
      StyleKit(<<SolidBlue>>, 80, <<>>, <<Shadow("NORMAL")>>) }

StyledNode(ty, kit) ==
    [NodeRec(<<"n">>, ty, kit.fills, <<>>, {}) EXCEPT
        !.cornerRadius = kit.cornerRadius,
        !.rectangleCornerRadii = kit.rectangleCornerRadii,
        !.effects = kit.effects]

ComponentStyleFiles ==
    { [parent |-> p,
       node |-> [k \in 1..MaxNodes |->
                    StyledNode(IF k = 1 THEN top ELSE "FRAME", kit[k])],
       components |-> <<>>, componentSets |-> <<>>, styles |-> <<>>] :
      p \in ParentVectors(MaxNodes),
      top \in {"COMPONENT_SET", "COMPONENT"},
      kit \in [1..MaxNodes -> StyleKits] }

InitComponentStyles == RunInit(ComponentStyleFiles)
NextComponentStyles == RunExtractComponentStyles
SpecComponentStyles == InitComponentStyles /\ [][NextComponentStyles]_vars

InitComponents == RunInit(ComponentFiles)
NextComponents == RunExtractComponents
SpecComponents == InitComponents /\ [][NextComponents]_vars

----------------------------------------------------------------------------
(* Tree facts computed from the parent pointers alone                      *)

RECURSIVE IsInSubtree(_, _, _)
IsInSubtree(f, root, k) ==
    \/ k = root
    \/ k # 0 /\ IsInSubtree(f, root, f.parent[k])

Subtree(f, root) == { k \in NodeIds(f) : IsInSubtree(f, root, k) }

\* the page (child of the document) above node k; k itself when k is a page
RECURSIVE PageAbove(_, _)
PageAbove(f, k) == IF f.parent[k] = 0 THEN k ELSE PageAbove(f, f.parent[k])

InTreeBelowPage(f, k) == k \in 1..Len(f.parent) /\ f.parent[k] # 0

VisitsExactlyOnce(visited, S) ==
    /\ Range(visited) = S
    /\ Len(visited) = Cardinality(S)

VisitsParentFirst(f, visited) ==
    \A a, b \in DOMAIN visited :
        (visited[b] # 0 /\ f.parent[visited[b]] = visited[a]) => a < b

PaintsOf(f, n, slot) == IF slot = "fills" THEN NodeOf(f, n).fills ELSE NodeOf(f, n).strokes

\* the visible solid fills and strokes of colour hex in the whole tree
ColourUses(f, hex) ==
    { u \in NodeIds(f) \X {"fills", "strokes"} \X (1..3) :
        /\ u[3] \in DOMAIN PaintsOf(f, u[1], u[2])
        /\ LET p == PaintsOf(f, u[1], u[2])[u[3]]
           IN /\ p.type = "SOLID"
              /\ p.visible \in {"true", "undefined"}
              /\ p.color \in {Red, NearRed, Blue}
              /\ rgbToHex(p.color) = hex }

AllHexes == { rgbToHex(c) : c \in {Red, NearRed, Blue} }

\* C10: each traversal (raw-token pass, id-index pass, component-style pass)
\* runs its per-node logic exactly once on every node of the subtree it is
\* given, a parent before its children; the raw usage count of a colour is
\* the number of visible solid fills and strokes of that colour in the tree.
C10_TraversalVisitsEachNodeOnce ==
    /\ pass = "extractRawTokens" =>
          /\ VisitsExactlyOnce(result.visited, NodeIds(fileData))
          /\ VisitsParentFirst(fileData, result.visited)
          /\ DOMAIN result.colors = { h \in AllHexes : ColourUses(fileData, h) # {} }
          /\ \A h \in DOMAIN result.colors :
                result.colors[h] = Cardinality(ColourUses(fileData, h))
    /\ pass = "indexNodes" =>
          /\ VisitsExactlyOnce(result.visited, NodeIds(fileData))
          /\ VisitsParentFirst(fileData, result.visited)
          /\ result.ids = NodeIds(fileData)
    /\ pass = "extractComponentStyles" =>
          /\ VisitsExactlyOnce(result.visited,
                IF NodeOf(fileData, walkRoot).type = "COMPONENT_SET"
                THEN Subtree(fileData, walkRoot) \ {walkRoot}
                ELSE Subtree(fileData, walkRoot))
          /\ VisitsParentFirst(fileData, result.visited)

\* a raw-token pass over a tree with a grandchild, visited out of id order,
\* in which one colour was counted from several nodes
C10_Witness ==
    /\ pass = "extractRawTokens"
    /\ result.visited = <<0, 1, 3, 2>>
    /\ \E h \in DOMAIN result.colors : result.colors[h] >= 3

----------------------------------------------------------------------------
(* Claims about extractComponents                                          *)

IsPrivateName(name) == Len(name) >= 1 /\ Head(name) = "."

SetIsPrivate(f, setId) ==
    setId \in DOMAIN f.componentSets /\ IsPrivateName(f.componentSets[setId].name)

\* the records of set setId that the private filter keeps, in metadata order
PublicVariants(f, setId) ==
    SelectSeq(f.components,
              LAMBDA r : r.componentSetId = setId /\ ~IsPrivateName(r.name))

SetIdsOf(f) == { f.components[k].componentSetId : k \in DOMAIN f.components } \ {NoSet}

OutputsFor(out, ids) == { k \in DOMAIN out : out[k].nodeId \in ids }

PrivateRecordIds(f) ==
    { f.components[k].id : k \in { j \in DOMAIN f.components : IsPrivateName(f.components[j].name) } }

PrivateSetRecordIds(f) ==
    { f.components[k].id :
        k \in { j \in DOMAIN f.components :
                  /\ f.components[j].componentSetId # NoSet
                  /\ SetIsPrivate(f, f.components[j].componentSetId) } }

\* C8: no output component has a name starting with '.', no variants list
\* holds such a name, no nodeId is the id of a private record, no record of
\* a set whose name starts with '.' contributes; the public siblings of a
\* private variant are still output.
C8_PrivateExcluded ==
    pass = "extractComponents" =>
        /\ \A k \in DOMAIN result.components :
              LET c == result.components[k]
              IN /\ ~IsPrivateName(c.name)
                 /\ \A v \in DOMAIN c.variants : ~IsPrivateName(c.variants[v])
                 /\ c.nodeId \notin PrivateRecordIds(fileData)
                 /\ c.nodeId \notin PrivateSetRecordIds(fileData)
                 /\ c.variants # <<>> =>
                       Len(c.variants) =
                          Cardinality({ j \in DOMAIN fileData.components :
                              /\ ~IsPrivateName(fileData.components[j].name)
                              /\ fileData.components[j].componentSetId # NoSet
                              /\ ~SetIsPrivate(fileData, fileData.components[j].componentSetId)
                              /\ fileData.components[j].componentSetId =
                                   (CHOOSE r \in Range(fileData.components) : r.id = c.nodeId).componentSetId })
        /\ \A j \in DOMAIN fileData.components :
              LET r == fileData.components[j]
              IN (/\ ~IsPrivateName(r.name)
                  /\ r.componentSetId # NoSet
                  /\ ~SetIsPrivate(fileData, r.componentSetId)
                  /\ \E q \in Range(fileData.components) :
                        q.componentSetId = r.componentSetId /\ IsPrivateName(q.name))
                 => \E k \in DOMAIN result.components :
                        \E v \in DOMAIN result.components[k].variants :
                            /\ result.components[k].variants[v] = r.name
                            /\ result.components[k].nodeId
                                  = PublicVariants(fileData, r.componentSetId)[1].id

\* a set whose first record is private and whose public sibling is output
C8_Witness ==
    /\ pass = "extractComponents"
    /\ Len(fileData.components) >= 2
    /\ IsPrivateName(fileData.components[1].name)
    /\ fileData.components[1].componentSetId = SetOne
    /\ fileData.components[2].componentSetId = SetOne
    /\ \E k \in DOMAIN result.components :
          /\ result.components[k].nodeId = fileData.components[2].id
          /\ result.components[k].variants # <<>>

\* the node whose page decides the group: the component's own node, or the
\* set container's node for a variant set
GroupNode(f, c) ==
    IF c.variants = <<>> THEN c.nodeId
    ELSE (CHOOSE r \in Range(f.components) : r.id = c.nodeId).componentSetId

\* C9: pageOrder is the sequence of page names in document order, one entry
\* per page; the group of every output component is the name of the page
\* that is the topmost ancestor of its node (of the set container's node
\* for a variant set), and undefined when that node is not below a page.
C9_PageOrderAndGroup ==
    pass = "extractComponents" =>
        /\ result.pageOrder =
              [k \in DOMAIN Children(fileData, 0) |-> fileData.node[Children(fileData, 0)[k]].name]
        /\ Len(result.pageOrder) = Cardinality({ n \in 1..Len(fileData.parent) : fileData.parent[n] = 0 })
        /\ \A k \in DOMAIN result.components :
              LET c == result.components[k]
                  n == GroupNode(fileData, c)
              IN IF InTreeBelowPage(fileData, n)
                 THEN c.group = fileData.node[PageAbove(fileData, n)].name
                 ELSE c.group = UndefinedName

\* a variant set on page A, a component nested on page D, page E empty
C9_Witness ==
    /\ pass = "extractComponents"
    /\ result.pageOrder = << <<"A">>, <<"D">>, <<"E">> >>
    /\ \E k \in DOMAIN result.components :
          result.components[k].variants # <<>> /\ result.components[k].group = <<"A">>
    /\ \E k \in DOMAIN result.components :
          result.components[k].nodeId = 9 /\ result.components[k].group = <<"D">>

----------------------------------------------------------------------------
(* extract(): values computed synchronously from the fetched file          *)

\* getFrames.traverseNode(node, depth)
RECURSIVE getFramesEach(_, _, _, _)
RECURSIVE getFramesTraverse(_, _, _, _)
getFramesTraverse(f, n, depth, frames) ==
    LET pushed == IF NodeOf(f, n).type = "FRAME" /\ depth <= 2
                  THEN Append(frames, [id |-> n, name |-> NodeOf(f, n).name])
                  ELSE frames
    IN IF depth < 2 THEN getFramesEach(f, Children(f, n), depth + 1, pushed) ELSE pushed
getFramesEach(f, kids, depth, frames) ==
    IF kids = <<>> THEN frames
    ELSE getFramesEach(f, Tail(kids), depth, getFramesTraverse(f, Head(kids), depth, frames))

getFrames(f) == getFramesTraverse(f, 0, 0, <<>>)

\* allFrames.slice(0, 20)
framesToDownload(f) == SubSeq(getFrames(f), 1, Min(FrameCap, Len(getFrames(f))))

\* variant that asks for the node of every style entry
missingIdsUnfiltered(f) == [k \in DOMAIN f.styles |-> f.styles[k].node_id]

\* styleEntries.map(([id]) => id).filter(id => !nodeMap.has(id))
missingIds(f) ==
    SelectSeq([k \in DOMAIN f.styles |-> f.styles[k].node_id],
              LAMBDA id : id \notin DOMAIN indexDocument(f).nodeMap)

uiComponents(f) == SelectSeq(extractComponents(f).components, LAMBDA c : ~isIcon(c))
icons(f) == SelectSeq(extractComponents(f).components, isIcon)

----------------------------------------------------------------------------
(* Files served to extract(): one page holding nFrames top-level frames,   *)
(* nUi UI components and nIcons icon components, and one FILL style whose  *)
(* node is or is not part of the document tree.                            *)

UiNames(repeat) ==
    IF repeat THEN << <<"B">>, <<"C">>, <<"B">>, <<"D">> >>
    ELSE << <<"B">>, <<"C">>, <<"E">>, <<"D">> >>
IconNames == << <<"a", "/", "b">>, <<"a", "-", "b">>, <<"c">> >>

Cycle(pool, k) == pool[((k - 1) % Len(pool)) + 1]

ExportFile(nUi, nIcons, nFrames, styleMissing, repeat) ==
    LET n == 1 + nFrames + nUi + nIcons
        firstUi == 1 + nFrames
        firstIcon == firstUi + nUi
    IN [parent |-> [k \in 1..n |-> IF k = 1 THEN 0 ELSE 1],
        node |-> [k \in 1..n |->
                    IF k = 1 THEN NodeRec(<<"P">>, "CANVAS", <<>>, <<>>, {})
                    ELSE IF k <= firstUi THEN NodeRec(<<"w">>, "FRAME", <<SolidBlue>>, <<>>, {})
                    ELSE NodeRec(<<"n">>, "COMPONENT", <<SolidRed>>, <<>>, {})],
        components |-> [k \in 1..(nUi + nIcons) |->
                          IF k <= nUi
                          THEN CompMeta(firstUi + k, Cycle(UiNames(repeat), k), NoSet)
                          ELSE CompMeta(firstUi + k, Cycle(IconNames, k - nUi), NoSet)],
        componentSets |-> <<>>,
        styles |-> << [node_id |-> IF styleMissing THEN n + 1 ELSE 1, styleType |-> "FILL"] >>]

ExtractFiles ==
    { ExportFile(MaxUi, 0, 0, FALSE, TRUE),
      ExportFile(BatchSize, 0, 0, FALSE, TRUE),
      ExportFile(MaxUi, 0, 0, FALSE, FALSE),
      ExportFile(1, MaxIcons, 0, FALSE, FALSE),
      ExportFile(1, 0, MaxFrames, TRUE, FALSE),
      ExportFile(0, 0, 0, TRUE, FALSE) }

----------------------------------------------------------------------------

Kinds == {"frame", "png", "svg"}

\* the list each export function works through
ExportList(f, kind) ==
    IF kind = "frame" THEN framesToDownload(f)
    ELSE IF kind = "png" THEN uiComponents(f)
    ELSE icons(f)

\* extract() and the export functions compute their lists once per run and
\* keep them in locals (components, framesToDownload, uiComponents, icons)
exportLists == [f \in ExtractFiles |-> [kind \in Kinds |-> ExportList(f, kind)]]
listOf(f, kind) == exportLists[f][kind]

\* `components/${sanitized}.png`, `icons/${sanitized}.svg`
assetPath(kind, name) ==
    IF kind = "png" THEN <<"components/">> \o sanitize(name) \o <<".png">>
    ELSE <<"icons/">> \o sanitize(name) \o <<".svg">>

\* the keys of a Record<string, string>, kept as its entries in insertion order
mapKeys(map) == {map[k].name : k \in DOMAIN map}

\* imageMap[comp.name] = `components/${filename}`: a new key is appended, a
\* key already present keeps its place
recordAsset(map, kind, name) ==
    IF name \in mapKeys(map)
    THEN [k \in DOMAIN map |->
            IF map[k].name = name THEN [name |-> name, path |-> assetPath(kind, name)]
            ELSE map[k]]
    ELSE Append(map, [name |-> name, path |-> assetPath(kind, name)])

----------------------------------------------------------------------------
(* fetchWithRetry                                                          *)

\* HTTP statuses of a rejected fn; 0 stands for an error without response
Statuses == {0, 403, 404, 429, 500, 503}

ApiPhases == {"fetchFile", "fetchNodes", "fetchVars", "frameUrls", "compUrls", "iconUrls"}

\* the catch block: 0 = rethrow, otherwise the delay slept before the next attempt
retryDecisionAnyError(idx, status) ==
    IF idx = maxRetries - 1 THEN 0
    ELSE IF status = 429 THEN delay * (idx + 1) * 2
    ELSE delay * (idx + 1)
retryDecisionNoDoubling(idx, status) ==
    IF idx = maxRetries - 1 THEN 0
    ELSE IF status = 429 \/ status >= 500 THEN delay * (idx + 1)
    ELSE 0
retryDecision(idx, status) ==
    IF idx = maxRetries - 1 THEN 0
    ELSE IF status = 429 THEN delay * (idx + 1) * 2
    ELSE IF status >= 500 THEN delay * (idx + 1)
    ELSE 0

InFlight == pc \in ApiPhases /\ sleep = 0 /\ lastStatus = -1 /\ thrown = NoError
Returned == pc \in ApiPhases /\ lastStatus = 200
Threw == pc \in ApiPhases /\ thrown # NoError

\* a phase is entered; entering an API phase calls fetchWithRetry, which invokes fn
Proceed(target, start) ==
    /\ pc' = target
    /\ batchStart' = start
    /\ IF target \in ApiPhases
       THEN i' = 0 /\ sleep' = 0 /\ calls' = 1 /\ lastStatus' = -1 /\ thrown' = NoError
       ELSE UNCHANGED <<i, sleep, calls, lastStatus, thrown>>

\* return await fn()
FnResolve ==
    /\ InFlight
    /\ lastStatus' = 200
    /\ UNCHANGED <<fileData, pureVars, pc, i, sleep, calls, thrown, rejection,
                   variablesData, themes, batchStart, dl, maps, docs>>

\* catch (error) { ... }
FnReject ==
    /\ InFlight
    /\ \E status \in Statuses :
          /\ lastStatus' = status
          /\ IF retryDecision(i, status) = 0
             THEN /\ thrown' = [kind |-> pc, attempt |-> calls, status |-> status]
                  /\ sleep' = 0
             ELSE /\ sleep' = retryDecision(i, status)
                  /\ thrown' = thrown
    /\ UNCHANGED <<fileData, pureVars, pc, i, calls, rejection,
                   variablesData, themes, batchStart, dl, maps, docs>>

\* the setTimeout fires: next loop iteration
Wake ==
    /\ pc \in ApiPhases
    /\ sleep > 0
    /\ sleep' = 0
    /\ i' = i + 1
    /\ calls' = calls + 1
    /\ lastStatus' = -1
    /\ UNCHANGED <<fileData, pureVars, pc, thrown, rejection,
                   variablesData, themes, batchStart, dl, maps, docs>>

----------------------------------------------------------------------------
(* extract()                                                               *)

ExportPhase(kind) ==
    IF kind = "frame" THEN "frameUrls" ELSE IF kind = "png" THEN "compUrls" ELSE "iconUrls"
DownloadPhase(kind) ==
    IF kind = "frame" THEN "frameDl" ELSE IF kind = "png" THEN "compDl" ELSE "iconDl"

\* where the run goes once the icon export, the component export, the frame
\* screenshots, the variables are done (an empty list returns at once)
afterIcons(f) == "writeMd"
afterComponents(f) == IF listOf(f, "svg") # <<>> THEN "iconUrls" ELSE afterIcons(f)
afterFramesIconsFirst(f) == afterComponents(f)
afterFrames(f) == IF listOf(f, "png") # <<>> THEN "compUrls" ELSE afterComponents(f)
afterVariables(f) == IF listOf(f, "frame") # <<>> THEN "frameUrls" ELSE afterFrames(f)
afterStyles(f) == "fetchVars"

afterExport(f, kind) ==
    IF kind = "frame" THEN afterFrames(f)
    ELSE IF kind = "png" THEN afterComponents(f)
    ELSE afterIcons(f)

\* variant without the slice: every request carries the whole list
BatchUnsliced(f, kind, start) == 1..Len(listOf(f, kind))

\* positions of the current batch in the export list (the frames go in one request)
Batch(f, kind, start) ==
    IF kind = "frame" THEN 1..Len(listOf(f, kind))
    ELSE (start + 1)..Min(start + BatchSize, Len(listOf(f, kind)))

\* const ids = batch.map(c => c.nodeId)
requestIds(f, kind, start) ==
    [k \in Batch(f, kind, start) |-> listOf(f, kind)[k].nodeId]

\* for (let i = 0; i < list.length; i += batchSize): after the batch at `start`
hasNextBatch(f, kind, start) ==
    kind # "frame" /\ start + BatchSize < Len(listOf(f, kind))

\* the catch of a failed batch request: the loop goes on
afterBatchFailureBreaks(f, kind, start) == [pc |-> afterExport(f, kind), start |-> 0]
\* variant whose catch asks for the same batch again
afterBatchFailureSameBatch(f, kind, start) == [pc |-> ExportPhase(kind), start |-> start]
afterBatchFailure(f, kind, start) ==
    IF hasNextBatch(f, kind, start)
    THEN [pc |-> ExportPhase(kind), start |-> start + BatchSize]
    ELSE [pc |-> afterExport(f, kind), start |-> 0]

afterBatch(f, kind, start) ==
    IF hasNextBatch(f, kind, start)
    THEN [pc |-> ExportPhase(kind), start |-> start + BatchSize]
    ELSE [pc |-> afterExport(f, kind), start |-> 0]

\* fetchVariables' catch: is this error "Variables API not available"?
isUnavailableAnyStatus(status) == TRUE
isUnavailableOnly404(status) == status = 404
isUnavailable(status) == status = 403 \/ status = 404

\* extract() is called: fetchFileData
Extract ==
    /\ pc = "start"
    /\ Proceed("fetchFile", 0)
    /\ UNCHANGED <<fileData, pureVars, rejection, variablesData, themes, dl, maps, docs>>

\* file data arrived: extractPublishedStyles indexes the tree and, when style
\* nodes are missing, awaits fetchNodes; otherwise the run goes on to
\* extractComponents, extractRawTokens and fetchVariables
FileFetched ==
    /\ pc = "fetchFile" /\ Returned
    /\ Proceed(IF missingIds(fileData) # <<>> THEN "fetchNodes" ELSE afterStyles(fileData), 0)
    /\ UNCHANGED <<fileData, pureVars, rejection, variablesData, themes, dl, maps, docs>>

NodesFetched ==
    /\ pc = "fetchNodes" /\ Returned
    /\ Proceed(afterStyles(fileData), 0)
    /\ UNCHANGED <<fileData, pureVars, rejection, variablesData, themes, dl, maps, docs>>

\* variables arrived: extractThemes; `themes` stays undefined without collections
VariablesFetched ==
    /\ pc = "fetchVars" /\ Returned
    /\ variablesData' = "data"
    /\ \E collections \in BOOLEAN :
          themes' = IF collections THEN "present" ELSE "undefined"
    /\ Proceed(afterVariables(fileData), 0)
    /\ UNCHANGED <<fileData, pureVars, rejection, dl, maps, docs>>

\* fetchVariables' catch returns null
VariablesUnavailable ==
    /\ pc = "fetchVars" /\ Threw
    /\ isUnavailable(thrown.status)
    /\ variablesData' = "null"
    /\ Proceed(afterVariables(fileData), 0)
    /\ UNCHANGED <<fileData, pureVars, rejection, themes, dl, maps, docs>>

\* an API call outside the export loops threw: extract()'s catch rethrows
Fatal ==
    /\ pc \in {"fetchFile", "fetchNodes", "fetchVars", "frameUrls"} /\ Threw
    /\ ~(pc = "fetchVars" /\ isUnavailable(thrown.status))
    /\ pc' = "rejected"
    /\ rejection' = thrown
    /\ UNCHANGED <<fileData, pureVars, i, sleep, calls, lastStatus, thrown,
                   variablesData, themes, batchStart, dl, maps, docs>>

\* the export URLs arrived: every download closure of the batch runs up to
\* its first await (`if (!url) return`)
UrlsFetched(kind) ==
    /\ pc = ExportPhase(kind) /\ Returned
    /\ \E urls \in SUBSET Batch(fileData, kind, batchStart) :
          dl' = [dl EXCEPT ![kind] =
                    [k \in DOMAIN @ |->
                        IF k \in Batch(fileData, kind, batchStart)
                        THEN IF k \in urls THEN "get" ELSE "nourl"
                        ELSE @[k]]]
    /\ pc' = DownloadPhase(kind)
    /\ UNCHANGED <<fileData, pureVars, i, sleep, calls, lastStatus, thrown, rejection,
                   variablesData, themes, batchStart, maps, docs>>

\* the export URL request of a batch threw: caught, next batch
BatchFailed(kind) ==
    /\ kind # "frame"
    /\ pc = ExportPhase(kind) /\ Threw
    /\ dl' = [dl EXCEPT ![kind] =
                [k \in DOMAIN @ |->
                    IF k \in Batch(fileData, kind, batchStart) THEN "lost" ELSE @[k]]]
    /\ Proceed(afterBatchFailure(fileData, kind, batchStart).pc,
               afterBatchFailure(fileData, kind, batchStart).start)
    /\ UNCHANGED <<fileData, pureVars, rejection, variablesData, themes, maps, docs>>

\* axios.get(url) of one download fulfilled: fs.writeFile is awaited
DownloadGetOk(kind) ==
    /\ pc = DownloadPhase(kind)
    /\ \E k \in DOMAIN dl[kind] :
          /\ dl[kind][k] = "get"
          /\ dl' = [dl EXCEPT ![kind][k] = "write"]
    /\ UNCHANGED <<fileData, pureVars, pc, i, sleep, calls, lastStatus, thrown, rejection,
                   variablesData, themes, batchStart, maps, docs>>

\* axios.get(url) or fs.writeFile of one component/icon download rejected:
\* the closure's own catch swallows it
DownloadFail(kind) ==
    /\ kind # "frame"
    /\ pc = DownloadPhase(kind)
    /\ \E k \in DOMAIN dl[kind] :
          /\ dl[kind][k] \in {"get", "write"}
          /\ dl' = [dl EXCEPT ![kind][k] = "failed"]
    /\ UNCHANGED <<fileData, pureVars, pc, i, sleep, calls, lastStatus, thrown, rejection,
                   variablesData, themes, batchStart, maps, docs>>

\* axios.get(imageUrl) or fs.writeFile of one frame screenshot rejected: the
\* closure has no catch, Promise.all rejects, extract()'s catch rethrows
FrameDownloadFail ==
    /\ pc = "frameDl"
    /\ \E k \in DOMAIN dl["frame"] :
          /\ dl["frame"][k] \in {"get", "write"}
          /\ dl' = [dl EXCEPT !["frame"][k] = "failed"]
          /\ rejection' = [kind |-> "download", attempt |-> k, status |-> 0]
    /\ pc' = "rejected"
    /\ UNCHANGED <<fileData, pureVars, i, sleep, calls, lastStatus, thrown,
                   variablesData, themes, batchStart, maps, docs>>

\* fs.writeFile of one download fulfilled: the asset is recorded
DownloadWriteOk(kind) ==
    /\ pc = DownloadPhase(kind)
    /\ \E k \in DOMAIN dl[kind] :
          /\ dl[kind][k] = "write"
          /\ dl' = [dl EXCEPT ![kind][k] = "ok"]
          /\ maps' = IF kind = "frame" THEN maps
                     ELSE [maps EXCEPT ![kind] =
                              recordAsset(@, kind, listOf(fileData, kind)[k].name)]
    /\ UNCHANGED <<fileData, pureVars, pc, i, sleep, calls, lastStatus, thrown, rejection,
                   variablesData, themes, batchStart, docs>>

\* variant that goes on as soon as one download of the batch has settled
anySettled(f, kind, start, downloads) ==
    \E k \in Batch(f, kind, start) : downloads[kind][k] \in {"nourl", "ok", "failed"}

\* Promise.all(downloads) of closures that never reject: fulfilled once each
\* closure has returned
allSettled(f, kind, start, downloads) ==
    \A k \in Batch(f, kind, start) : downloads[kind][k] \in {"nourl", "ok", "failed"}

\* await Promise.all(downloads) fulfilled: next batch, or the function returns
Join(kind) ==
    /\ pc = DownloadPhase(kind)
    /\ allSettled(fileData, kind, batchStart, dl)
    /\ Proceed(afterBatch(fileData, kind, batchStart).pc,
               afterBatch(fileData, kind, batchStart).start)
    /\ UNCHANGED <<fileData, pureVars, rejection, variablesData, themes, dl, maps, docs>>

WriteDocument(at, name, next) ==
    /\ pc = at
    /\ docs' = docs \cup {name}
    /\ pc' = next
    /\ UNCHANGED <<fileData, pureVars, i, sleep, calls, lastStatus, thrown, rejection,
                   variablesData, themes, batchStart, dl, maps>>

WriteMarkdown == WriteDocument("writeMd", "DESIGN_SYSTEM.md", "writeTokens")
WriteTokens == WriteDocument("writeTokens", "design-tokens.json", "writeManifest")
WriteManifest == WriteDocument("writeManifest", "manifest.json", "resolved")

----------------------------------------------------------------------------
(* The run of extract()                                                    *)

Init ==
    /\ fileData \in ExtractFiles
    /\ pass = "idle" /\ result = NoResult /\ walkRoot = 0
    /\ pc = "start"
    /\ i = 0 /\ sleep = 0 /\ calls = 0 /\ lastStatus = -1
    /\ thrown = NoError /\ rejection = NoError
    /\ variablesData = "pending" /\ themes = "undefined"
    /\ batchStart = 0
    /\ dl = [kind \in Kinds |-> [k \in 1..Len(listOf(fileData, kind)) |-> "todo"]]
    /\ maps = [kind \in {"png", "svg"} |-> <<>>]
    /\ docs = {}

FrameUrlsFetched == UrlsFetched("frame")
FrameDownloadGetOk == DownloadGetOk("frame")
FrameDownloadWriteOk == DownloadWriteOk("frame")
FramesJoined == Join("frame")

ComponentUrlsFetched == UrlsFetched("png")
ComponentBatchFailed == BatchFailed("png")
ComponentDownloadGetOk == DownloadGetOk("png")
ComponentDownloadFail == DownloadFail("png")
ComponentDownloadWriteOk == DownloadWriteOk("png")
ComponentsJoined == Join("png")

IconUrlsFetched == UrlsFetched("svg")
IconBatchFailed == BatchFailed("svg")
IconDownloadGetOk == DownloadGetOk("svg")
IconDownloadFail == DownloadFail("svg")
IconDownloadWriteOk == DownloadWriteOk("svg")
IconsJoined == Join("svg")

Next ==
    \/ Extract \/ FnResolve \/ FnReject \/ Wake
    \/ FileFetched \/ NodesFetched \/ VariablesFetched \/ VariablesUnavailable \/ Fatal
    \/ FrameUrlsFetched \/ FrameDownloadGetOk \/ FrameDownloadFail
    \/ FrameDownloadWriteOk \/ FramesJoined
    \/ ComponentUrlsFetched \/ ComponentBatchFailed \/ ComponentDownloadGetOk
    \/ ComponentDownloadFail \/ ComponentDownloadWriteOk \/ ComponentsJoined
    \/ IconUrlsFetched \/ IconBatchFailed \/ IconDownloadGetOk
    \/ IconDownloadFail \/ IconDownloadWriteOk \/ IconsJoined
    \/ WriteMarkdown \/ WriteTokens \/ WriteManifest

Spec == Init /\ [][Next]_vars

----------------------------------------------------------------------------
(* Claims about fetchWithRetry and extract()                               *)

RetriedStatuses == {s \in Statuses : s = 429 \/ s >= 500}

ErrorOfLastAttempt == [kind |-> pc, attempt |-> calls, status |-> lastStatus]

PhasesAfter(kind) ==
    IF kind = "frame"
    THEN {"compUrls", "compDl", "iconUrls", "iconDl",
          "writeMd", "writeTokens", "writeManifest", "resolved"}
    ELSE IF kind = "png"
    THEN {"iconUrls", "iconDl", "writeMd", "writeTokens", "writeManifest", "resolved"}
    ELSE {"writeMd", "writeTokens", "writeManifest", "resolved"}

NamesIn(kind, states) ==
    {ExportList(fileData, kind)[k].name : k \in {j \in DOMAIN dl[kind] : dl[kind][j] \in states}}

AllPhasesComplete ==
    /\ variablesData # "pending"
    /\ \A kind \in Kinds : \A k \in DOMAIN dl[kind] :
          dl[kind][k] \in {"nourl", "ok", "failed", "lost"}

C1_State ==
    /\ calls <= 3
    /\ lastStatus = 200 => thrown = NoError /\ sleep = 0
    /\ sleep > 0 => lastStatus \in RetriedStatuses /\ calls < 3 /\ thrown = NoError
    /\ (pc \in ApiPhases /\ lastStatus \in Statuses \ RetriedStatuses)
          => thrown = ErrorOfLastAttempt /\ sleep = 0
    /\ (pc \in ApiPhases /\ calls = 3 /\ lastStatus \in Statuses)
          => thrown = ErrorOfLastAttempt /\ sleep = 0
    /\ thrown # NoError => thrown.attempt = calls /\ thrown.status = lastStatus

C1_Step ==
    (calls' # calls /\ calls' > 1)
        => calls' = calls + 1 /\ pc' = pc /\ lastStatus \in RetriedStatuses

\* C1: fetchWithRetry invokes fn at most 3 times per call; a success ends the
\* call with no further invocation; fn is invoked again only after a failure
\* with status 429 or >= 500; a failure with any other status, or without a
\* response, is rethrown after that attempt; the failure of the third attempt
\* is rethrown as it is.
C1_RetryPolicy == []C1_State /\ [][C1_Step]_vars

C1_Witness ==
    /\ pc \in ApiPhases
    /\ calls = 3
    /\ thrown = [kind |-> pc, attempt |-> 3, status |-> 503]

FatalFailure ==
    /\ pc \in {"fetchFile", "fetchNodes", "fetchVars"}
    /\ thrown # NoError
    /\ ~(pc = "fetchVars" /\ thrown.status \in {403, 404})

C2_State ==
    /\ FatalFailure => docs = {}
    /\ pc = "rejected" => docs = {} /\ rejection # NoError
    /\ docs # {} => pc \in {"writeTokens", "writeManifest", "resolved"} /\ AllPhasesComplete

C2_Step == FatalFailure => pc' = "rejected" /\ rejection' = thrown /\ docs' = {}

\* C2: when the file fetch, the secondary node fetch or the variables fetch
\* (status other than 403/404) finally fails, extract() rejects with that same
\* error and none of the three documents has been written; the documents are
\* written only after every extraction and export phase has completed.
C2_FatalFetchFailure == []C2_State /\ [][C2_Step]_vars

C2_Witness ==
    /\ pc = "rejected"
    /\ rejection = [kind |-> "fetchNodes", attempt |-> 3, status |-> 500]
    /\ docs = {}

\* C3: the failure of a single image download never terminates the run:
\* extract() rejects only with the error of an API call that went through
\* fetchWithRetry.
C3_DownloadFailureNeverFatal == pc = "rejected" => rejection.kind \in ApiPhases

C4_State ==
    /\ (pc = "fetchVars" /\ lastStatus \in {403, 404})
          => thrown = ErrorOfLastAttempt /\ sleep = 0
    /\ variablesData = "null" => themes = "undefined" /\ pc # "fetchVars"

C4_Step ==
    (pc = "fetchVars" /\ thrown # NoError)
        => IF thrown.status \in {403, 404}
           THEN variablesData' = "null" /\ themes' = "undefined"
                /\ pc' \notin {"rejected", "fetchVars"}
           ELSE pc' = "rejected" /\ rejection' = thrown /\ variablesData' = "pending"

\* C4: a 403 or 404 on the variables call is not retried, fetchVariables
\* returns null, and the run goes on with themes absent through to completion;
\* a failure with any other status is fatal for the run.
C4_VariablesUnavailable == []C4_State /\ [][C4_Step]_vars

C4_Witness ==
    /\ pc = "resolved"
    /\ variablesData = "null"
    /\ themes = "undefined"
    /\ docs = {"DESIGN_SYSTEM.md", "design-tokens.json", "manifest.json"}

OneMissingRestOk(kind) ==
    /\ Len(ExportList(fileData, kind)) \in 1..BatchSize
    /\ \E m \in DOMAIN dl[kind] :
          /\ dl[kind][m] = "nourl"
          /\ \A k \in DOMAIN dl[kind] \ {m} : dl[kind][k] = "ok"

\* C5: when one batch of N components has exactly one node without export URL
\* and every other download succeeds, the returned map has exactly N-1 entries
\* and the export does not throw.
C5_OneMissingUrl ==
    \A kind \in {"png", "svg"} :
        (pc \in PhasesAfter(kind) /\ OneMissingRestOk(kind))
            => Len(maps[kind]) = Len(ExportList(fileData, kind)) - 1

C6_State ==
    /\ \A kind \in {"png", "svg"} :
          pc \in PhasesAfter(kind)
              => /\ mapKeys(maps[kind]) = NamesIn(kind, {"ok"})
                 /\ NamesIn(kind, {"todo"}) = {}
    /\ pc = "rejected"
          => \A kind \in {"png", "svg"} : \A k \in DOMAIN dl[kind] : dl[kind][k] = "todo"

C6_Step ==
    \A kind \in {"png", "svg"} :
        (pc = ExportPhase(kind) /\ thrown # NoError)
            => /\ maps' = maps
               /\ IF hasNextBatch(fileData, kind, batchStart)
                  THEN /\ pc' = ExportPhase(kind)
                       /\ batchStart' = batchStart + BatchSize
                       /\ calls' = 1 /\ lastStatus' = -1 /\ thrown' = NoError
                  ELSE pc' = afterExport(fileData, kind)

\* C6: when the export URL request of one batch fails, the error is caught,
\* nothing of that batch enters the output map, every later batch is still
\* requested and its downloaded assets are added, and the export function
\* returns instead of throwing.
C6_BatchFailureSkipped == []C6_State /\ [][C6_Step]_vars

C6_Witness ==
    /\ pc \in PhasesAfter("png")
    /\ \E k \in DOMAIN dl["png"] : k <= BatchSize /\ dl["png"][k] = "lost"
    /\ \E k \in DOMAIN dl["png"] :
          /\ k > BatchSize
          /\ dl["png"][k] = "ok"
          /\ ExportList(fileData, "png")[k].name \in mapKeys(maps["png"])
          /\ ExportList(fileData, "png")[k].name \notin NamesIn("png", {"lost"})

----------------------------------------------------------------------------
(* extractPublishedStyles: resolving the style metadata against the nodes  *)

\* an optional attribute of a node: absent, or present with a value
Absent == [defined |-> FALSE, value |-> <<>>]
Present(v) == [defined |-> TRUE, value |-> v]

\* a node that may define a style
StyleNode(fl, st, ef, lg) ==
    [name |-> <<"s">>, type |-> "RECTANGLE", fills |-> fl, strokes |-> <<>>, props |-> {},
     style |-> st, effects |-> ef, layoutGrids |-> lg]

StyleMeta(id, ty) == [node_id |-> id, styleType |-> ty]

\* for (const [id, node] of Object.entries(fetched)) nodeMap.set(id, node)
mergeFetchedIgnored(nodeMap, fetched) == nodeMap
mergeFetched(nodeMap, fetched) == fetched @@ nodeMap

\* node.fills.find(f => f.type === 'SOLID')
solidFill(node) == SelectSeq(node.fills, LAMBDA p : p.type = "SOLID")

\* the switch on meta.styleType for one entry
resolveStyle(nodeMap, meta, out) ==
    IF meta.node_id \notin DOMAIN nodeMap THEN out
    ELSE LET node == nodeMap[meta.node_id] IN
         IF meta.styleType = "FILL"
         THEN IF solidFill(node) # <<>> /\ Head(solidFill(node)).color # NoColor
              THEN [out EXCEPT !.colors =
                       Append(@, [hex |-> rgbToHex(Head(solidFill(node)).color),
                                  styleId |-> meta.node_id])]
              ELSE out
         ELSE IF meta.styleType = "TEXT"
         THEN IF "style" \in DOMAIN node /\ node.style.defined
              THEN [out EXCEPT !.textStyles =
                       Append(@, [style |-> node.style.value, styleId |-> meta.node_id])]
              ELSE out
         ELSE IF meta.styleType = "EFFECT"
         THEN IF "effects" \in DOMAIN node /\ node.effects.defined
              THEN [out EXCEPT !.effectStyles =
                       Append(@, [effects |-> node.effects.value, styleId |-> meta.node_id])]
              ELSE out
         ELSE IF meta.styleType = "GRID"
         THEN IF "layoutGrids" \in DOMAIN node /\ node.layoutGrids.defined
              THEN [out EXCEPT !.gridStyles =
                       Append(@, [grids |-> node.layoutGrids.value, styleId |-> meta.node_id])]
              ELSE out
         ELSE out

\* for (const [nodeId, meta] of styleEntries)
RECURSIVE resolveStyles(_, _, _)
resolveStyles(nodeMap, entries, out) ==
    IF entries = <<>> THEN out
    ELSE resolveStyles(nodeMap, Tail(entries), resolveStyle(nodeMap, Head(entries), out))

\* extractPublishedStyles, given the response of the secondary fetch
extractPublishedStyles(f, fetched) ==
    resolveStyles(mergeFetched(indexDocument(f).nodeMap, fetched), f.styles,
                  [colors |-> <<>>, textStyles |-> <<>>, effectStyles |-> <<>>,
                   gridStyles |-> <<>>])

\* fetchNodes(nodeIds): the /nodes requests it issues, each with its ids
fetchNodesRequests(nodeIds) == IF Len(nodeIds) = 0 THEN <<>> ELSE <<nodeIds>>

\* if (missingIds.length > 0) fetched = await this.fetchNodes(missingIds)
secondaryRequests(f) ==
    IF Len(missingIds(f)) > 0 THEN fetchNodesRequests(missingIds(f)) ELSE <<>>

\* attribute combinations of a style-defining node
StyleNodes ==
    { StyleNode(<<Gradient, SolidRed, SolidBlue>>, Present("Inter"), Absent, Absent),
      StyleNode(<<Gradient>>, Absent, Present(<<>>), Present(<<"grid">>)),
      StyleNode(<<>>, Absent, Present(<<"shadow">>), Absent) }

StyleTypes == {"FILL", "TEXT", "EFFECT", "GRID"}

\* node ids of style entries: node 2 is part of the tree, the others are not
StyleIds == 2..(MaxStyles + 2)

StyleEntryLists ==
    UNION { { e \in [1..n -> [node_id : StyleIds, styleType : StyleTypes]] :
                \A a, b \in 1..n : a # b => e[a].node_id # e[b].node_id }
            : n \in 1..MaxStyles }

StyleFiles ==
    { [parent |-> <<0, 1>>,
       node |-> <<NodeRec(<<"P">>, "CANVAS", <<>>, <<>>, {}), inTree>>,
       components |-> <<>>, componentSets |-> <<>>, styles |-> entries]
      : inTree \in StyleNodes, entries \in StyleEntryLists }

\* what fetchNodes may resolve with: some of the requested ids, each with a node
FetchedNodes(ids) ==
    UNION { [got -> StyleNodes] : got \in SUBSET ids }

RunExtractPublishedStyles ==
    /\ pass = "idle"
    /\ pass' = "extractPublishedStyles"
    /\ \E fetched \in FetchedNodes(Range(missingIds(fileData))) :
          result' = [requests |-> secondaryRequests(fileData),
                     fetched |-> fetched,
                     styles |-> extractPublishedStyles(fileData, fetched)]
    /\ UNCHANGED <<fileData, walkRoot, runVars>>

InitStyles == RunInit(StyleFiles)
NextStyles == RunExtractPublishedStyles
SpecStyles == InitStyles /\ [][NextStyles]_vars

\* the node a style entry resolves to once the fetched nodes are merged
StyleNodeKnown(meta) ==
    meta.node_id \in DOMAIN result.fetched
        \/ meta.node_id \in 1..Len(fileData.parent)

StyleNodeOf(meta) ==
    IF meta.node_id \in DOMAIN result.fetched THEN result.fetched[meta.node_id]
    ELSE fileData.node[meta.node_id]

\* the node carries what the entry's kind requires
HasRequiredAttribute(meta) ==
    LET node == StyleNodeOf(meta) IN
    CASE meta.styleType = "FILL" ->
            \E k \in DOMAIN node.fills :
                /\ node.fills[k].type = "SOLID"
                /\ node.fills[k].color # NoColor
                /\ \A j \in 1..(k - 1) : node.fills[j].type # "SOLID"
      [] meta.styleType = "TEXT" -> node.style.defined
      [] meta.styleType = "EFFECT" -> node.effects.defined
      [] meta.styleType = "GRID" -> node.layoutGrids.defined

ListOfKind(ty) ==
    CASE ty = "FILL" -> result.styles.colors
      [] ty = "TEXT" -> result.styles.textStyles
      [] ty = "EFFECT" -> result.styles.effectStyles
      [] ty = "GRID" -> result.styles.gridStyles

Occurrences(ty, id) ==
    Cardinality({k \in DOMAIN ListOfKind(ty) : ListOfKind(ty)[k].styleId = id})

StylesResolved == pass = "extractPublishedStyles"

\* C11: a style entry whose node is unknown after the secondary fetch, or
\* whose node lacks what its kind requires, is left out; every other entry
\* appears exactly once, in the list of its own kind and in no other list.
C11_UnresolvedStylesOmitted ==
    StylesResolved =>
        \A k \in DOMAIN fileData.styles :
            LET meta == fileData.styles[k] IN
            \A ty \in StyleTypes :
                Occurrences(ty, meta.node_id) =
                    IF /\ ty = meta.styleType
                       /\ StyleNodeKnown(meta)
                       /\ HasRequiredAttribute(meta)
                    THEN 1 ELSE 0

C11_Witness ==
    /\ StylesResolved
    /\ \E a, c \in DOMAIN fileData.styles :
          /\ ~StyleNodeKnown(fileData.styles[a])
          /\ \A ty \in StyleTypes : Occurrences(ty, fileData.styles[a].node_id) = 0
          /\ fileData.styles[c].node_id \in DOMAIN result.fetched
          /\ HasRequiredAttribute(fileData.styles[c])
          /\ Occurrences(fileData.styles[c].styleType, fileData.styles[c].node_id) = 1

\* ids of the style metadata that no node of the document tree carries
AbsentStyleIds ==
    {fileData.styles[k].node_id : k \in DOMAIN fileData.styles} \ NodeIds(fileData)

\* C21: the secondary node fetch is issued at most once, exactly when some
\* style id is absent from the tree, for exactly the absent ids, each once;
\* the styles are resolved against the index with the fetched nodes merged in.
C21_SecondaryFetchExact ==
    StylesResolved =>
        /\ Len(result.requests) <= 1
        /\ (result.requests # <<>>) <=> (AbsentStyleIds # {})
        /\ \A r \in DOMAIN result.requests :
              /\ Range(result.requests[r]) = AbsentStyleIds
              /\ Len(result.requests[r]) = Cardinality(AbsentStyleIds)
        /\ \A k \in DOMAIN fileData.styles :
              LET meta == fileData.styles[k] IN
              (meta.node_id \in DOMAIN result.fetched /\ HasRequiredAttribute(meta))
                  => Occurrences(meta.styleType, meta.node_id) = 1

C21_Witness ==
    /\ StylesResolved
    /\ Len(result.requests) = 1
    /\ \E a, c \in DOMAIN fileData.styles :
          /\ fileData.styles[a].node_id \in NodeIds(fileData)
          /\ fileData.styles[a].node_id \notin Range(result.requests[1])
          /\ fileData.styles[c].node_id \in Range(result.requests[1])
          /\ fileData.styles[c].node_id \in DOMAIN result.fetched
          /\ Occurrences(fileData.styles[c].styleType, fileData.styles[c].node_id) = 1

\* the map of a run whose downloads complete in list order
RECURSIVE InOrderMap(_, _, _)
InOrderMap(kind, k, map) ==
    IF k > Len(ExportList(fileData, kind)) THEN map
    ELSE InOrderMap(kind, k + 1,
                    IF dl[kind][k] = "ok"
                    THEN recordAsset(map, kind, ExportList(fileData, kind)[k].name)
                    ELSE map)

\* C16: for a fixed file and fixed outcomes of all requests, the component
\* image map and the icon map, as serialized (keys in insertion order), are
\* the same for every completion order of the concurrent downloads, that is,
\* the same as when the downloads complete in list order.
C16_OutputIndependentOfCompletionOrder ==
    \A kind \in {"png", "svg"} :
        pc \in PhasesAfter(kind) => maps[kind] = InOrderMap(kind, 1, <<>>)

----------------------------------------------------------------------------
(* Colour arithmetic (hex, RGB, HSL, luminance, contrast).  A hex colour   *)
(* is the sequence of its characters.  Fractions are exact: a lightness    *)
(* probed by the search is a multiple of 2^-30, kept as its numerator;     *)
(* hue, saturation and lightness of a colour are kept as fractions of its  *)
(* channel values.  Luminances are in units of 10^-7.                      *)

Max(a, b) == IF a > b THEN a ELSE b
Abs(a) == IF a < 0 THEN -a ELSE a

\* hex.replace('#', '')
stripHash(hex) ==
    IF \E k \in DOMAIN hex : hex[k] = "#"
    THEN LET at == CHOOSE k \in DOMAIN hex : hex[k] = "#" /\ \A j \in 1..(k - 1) : hex[j] # "#"
         IN SubSeq(hex, 1, at - 1) \o SubSeq(hex, at + 1, Len(hex))
    ELSE hex

\* value of one hexadecimal digit, either case
hexDigitValue(c) == IndexOf(HexDigits, toLowerCase(c)) - 1

\* parseInt(hex, 16) of a string of hexadecimal digits
RECURSIVE parseHex(_, _)
parseHex(digits, n) ==
    IF digits = <<>> THEN n ELSE parseHex(Tail(digits), 16 * n + hexDigitValue(Head(digits)))

\* if (h.length === 3) h = h[0] + h[0] + h[1] + h[1] + h[2] + h[2]
expandShortHex(h) ==
    IF Len(h) = 3 THEN <<h[1], h[1], h[2], h[2], h[3], h[3]>> ELSE h

\* { r: (n >> 16) & 255, g: (n >> 8) & 255, b: n & 255 }
channelsOf(n) == [r |-> (n \div 65536) % 256, g |-> (n \div 256) % 256, b |-> n % 256]

hexToRgb(hex) == channelsOf(parseHex(expandShortHex(stripHash(hex)), 0))

\* Math.max(0, Math.min(255, v)).toString(16).padStart(2, '0')
twoHexDigits(c) == <<HexDigits[(c \div 16) + 1], HexDigits[(c % 16) + 1]>>

hexByte(v) == twoHexDigits(Max(0, Min(255, v)))

\* rgbToHex of the colour module (channels are integers here)
colorsRgbToHex(c) == <<"#">> \o hexByte(c.r) \o hexByte(c.g) \o hexByte(c.b)

\* /^#[0-9a-fA-F]{6}$/.test(h)
isHex6(h) ==
    /\ Len(h) = 7
    /\ h[1] = "#"
    /\ \A k \in 2..7 : toLowerCase(h[k]) \in Range(HexDigits)

\* rgbToHsl: l = lNum/510, s = sNum/sDen, h = 60 * hNum/hDen degrees
hslOf(c, max, min, d) ==
    IF max = min
    THEN [hNum |-> 0, hDen |-> 1, sNum |-> 0, sDen |-> 1, lNum |-> max + min]
    ELSE [hNum |-> IF max = c.r THEN (c.g - c.b) + (IF c.g < c.b THEN 6 * d ELSE 0)
                   ELSE IF max = c.g THEN (c.b - c.r) + 2 * d
                   ELSE (c.r - c.g) + 4 * d,
          hDen |-> d,
          sNum |-> d,
          sDen |-> IF max + min > 255 THEN 510 - max - min ELSE max + min,
          lNum |-> max + min]

rgbToHsl(c) ==
    hslOf(c, Max(c.r, Max(c.g, c.b)), Min(c.r, Min(c.g, c.b)),
          Max(c.r, Max(c.g, c.b)) - Min(c.r, Min(c.g, c.b)))

Unit == 1073741824      \* 2^30: a probed lightness is mid / Unit

\* floor(k * m / 2^30) for 0 <= k < 2^20 and 0 <= m <= 2^30, without overflow
mulShift(k, m) ==
    LET m2 == m \div 1048576
        m1 == (m \div 1024) % 1024
        m0 == m % 1024
    IN (k * m2 + ((k * m1 + ((k * m0) \div 1024)) \div 1024)) \div 1024

\* if (t < 0) t += 1; if (t > 1) t -= 1, for 6t = u / den
wrapHue(u, den) ==
    IF u < 0 THEN u + 6 * den
    ELSE IF u > 6 * den THEN u - 6 * den ELSE u

\* the four branches of hue2rgb, for 6t = u / den
hueRamp(u, den) ==
    IF u < den THEN u
    ELSE IF u < 3 * den THEN den
    ELSE IF u < 4 * den THEN 4 * den - u
    ELSE 0

\* hue2rgb(p, q, t) = p + (q - p) * w: numerator of w over hsl.hDen, where
\* 6t = hNum/hDen + shift, wrapped into [0, 6]
hue2rgbWeight(hsl, shift) == hueRamp(wrapHue(hsl.hNum + shift * hsl.hDen, hsl.hDen), hsl.hDen)

\* Math.round(255 * (p + (q - p) * w)) with q = l*(1+s) or l+s-l*s, p = 2l-q,
\* l = mid / 2^30: p + (q - p) * w = l + min(l, 1 - l) * e / sDen, where
\* e = sNum * (2w - 1)
roundChannelOf(hsl, mid, e) ==
    IF mid < Unit \div 2
    THEN (mulShift(510 * (hsl.sDen + e), mid) + hsl.sDen) \div (2 * hsl.sDen)
    ELSE (mulShift(510 * (hsl.sDen - e), mid) + 510 * e + hsl.sDen) \div (2 * hsl.sDen)

roundChannel(hsl, mid, w) ==
    roundChannelOf(hsl, mid, (hsl.sNum * (2 * w - hsl.hDen)) \div hsl.hDen)

\* hslToRgb({ h: hsl.h, s: hsl.s, l: mid })
hslToRgb(hsl, mid) ==
    IF hsl.sNum = 0
    THEN [r |-> roundChannel(hsl, mid, 0), g |-> roundChannel(hsl, mid, 0),
          b |-> roundChannel(hsl, mid, 0)]
    ELSE [r |-> roundChannel(hsl, mid, hue2rgbWeight(hsl, 2)),
          g |-> roundChannel(hsl, mid, hue2rgbWeight(hsl, 0)),
          b |-> roundChannel(hsl, mid, hue2rgbWeight(hsl, -2))]

\* luminance(hex) * 255000
weightedChannels(c) == 299 * c.r + 587 * c.g + 114 * c.b

luminance(hex) == weightedChannels(hexToRgb(hex))

\* c <= 0.04045 ? c / 12.92 : Math.pow((c + 0.055) / 1.055, 2.4), for c = k/255,
\* in units of 10^-7 (entry k + 1)
srgbLinear ==
    << 0, 3035, 6071, 9106, 12141, 15176, 18212, 21247,
       24282, 27317, 30353, 33465, 36765, 40247, 43914, 47770,
       51815, 56054, 60488, 65121, 69954, 74990, 80232, 85681,
       91341, 97212, 103298, 109601, 116122, 122865, 129830, 137021,
       144438, 152085, 159963, 168074, 176420, 185002, 193824, 202886,
       212190, 221739, 231534, 241576, 251869, 262412, 273209, 284260,
       295568, 307134, 318960, 331048, 343398, 356013, 368895, 382044,
       395462, 409152, 423114, 437350, 451862, 466651, 481718, 497066,
       512695, 528606, 544803, 561285, 578054, 595112, 612461, 630100,
       648033, 666259, 684782, 703601, 722719, 742136, 761854, 781874,
       802198, 822827, 843762, 865005, 886556, 908417, 930590, 953075,
       975873, 998987, 1022417, 1046165, 1070231, 1094617, 1119324, 1144354,
       1169707, 1195384, 1221388, 1247718, 1274377, 1301365, 1328683, 1356333,
       1384316, 1412633, 1441285, 1470273, 1499598, 1529262, 1559265, 1589608,
       1620294, 1651322, 1682694, 1714411, 1746474, 1778884, 1811642, 1844750,
       1878208, 1912017, 1946178, 1980693, 2015563, 2050787, 2086369, 2122308,
       2158605, 2195262, 2232280, 2269659, 2307400, 2345506, 2383976, 2422811,
       2462013, 2501583, 2541521, 2581829, 2622507, 2663556, 2704978, 2746773,
       2788943, 2831487, 2874408, 2917706, 2961383, 3005438, 3049873, 3094689,
       3139887, 3185468, 3231432, 3277781, 3324515, 3371636, 3419144, 3467041,
       3515326, 3564001, 3613068, 3662526, 3712377, 3762621, 3813260, 3864294,
       3915725, 3967552, 4019778, 4072402, 4125426, 4178851, 4232677, 4286905,
       4341536, 4396572, 4452012, 4507858, 4564110, 4620770, 4677838, 4735315,
       4793202, 4851499, 4910208, 4969330, 5028865, 5088813, 5149177, 5209956,
       5271151, 5332764, 5394795, 5457245, 5520114, 5583404, 5647115, 5711248,
       5775804, 5840784, 5906188, 5972018, 6038273, 6104956, 6172066, 6239604,
       6307571, 6375969, 6444797, 6514056, 6583748, 6653873, 6724432, 6795425,
       6866853, 6938718, 7011019, 7083758, 7156935, 7230551, 7304607, 7379104,
       7454042, 7529422, 7605245, 7681511, 7758222, 7835378, 7912979, 7991027,
       8069523, 8148466, 8227858, 8307699, 8387990, 8468732, 8549926, 8631572,
       8713671, 8796224, 8879231, 8962694, 9046612, 9130987, 9215819, 9301109,
       9386857, 9473065, 9559734, 9646862, 9734453, 9822506, 9911021, 10000000 >>
\* floor(w * x / 10000) for a weight w in ten-thousandths
weighted(w, x) == w * (x \div 10000) + (w * (x % 10000)) \div 10000

\* wcagLuminance(hex), in units of 10^-7
relativeLuminance(c, linear) ==
    weighted(2126, linear[c.r + 1]) + weighted(7152, linear[c.g + 1])
        + weighted(722, linear[c.b + 1])

wcagLuminance(hex) == relativeLuminance(hexToRgb(hex), srgbLinear)

\* contrastRatio(hex1, hex2) >= num / den
ratioAtLeast(l1, l2, num, den) ==
    den * (Max(l1, l2) + 500000) >= num * (Min(l1, l2) + 500000)

contrastAtLeast(hex1, hex2, num, den) ==
    ratioAtLeast(wcagLuminance(hex1), wcagLuminance(hex2), num, den)

\* saturation(hex) as the fraction num/den
spread(max, min) ==
    IF max = 0 THEN [num |-> 0, den |-> 1] ELSE [num |-> max - min, den |-> max]

channelSpread(c) == spread(Max(c.r, Max(c.g, c.b)), Min(c.r, Min(c.g, c.b)))

saturation(hex) == channelSpread(hexToRgb(hex))

lighten(rgb, amount) ==
    <<"#">> \o hexByte(rgb.r + amount) \o hexByte(rgb.g + amount) \o hexByte(rgb.b + amount)

----------------------------------------------------------------------------
(* adjustBrandForContrast                                                  *)

searchIterations == 30
minTextContrast == [num |-> 9, den |-> 2]       \* 4.5
minButtonContrast == [num |-> 3, den |-> 1]     \* 3.0

White == <<"#", "F", "F", "F", "F", "F", "F">>

\* textC >= minTextContrast
textContrastOk(hex, bgHex) ==
    contrastAtLeast(hex, bgHex, minTextContrast.num, minTextContrast.den)

\* btnC >= minButtonContrast
buttonContrastOk(hex) ==
    contrastAtLeast(hex, White, minButtonContrast.num, minButtonContrast.den)

\* mid - hsl.l as hi * 2^15 + lo (0 <= lo < 2^15), in units of 1 / (510 * 2^30)
lightnessOffset(hsl, mid) ==
    [hi |-> 510 * (mid \div 32768) - hsl.lNum * 32768 + ((510 * (mid % 32768)) \div 32768),
     lo |-> (510 * (mid % 32768)) % 32768]

\* Math.abs(mid - hsl.l)
magnitude(o) ==
    IF o.hi >= 0 THEN o
    ELSE IF o.lo = 0 THEN [hi |-> -o.hi, lo |-> 0]
    ELSE [hi |-> -o.hi - 1, lo |-> 32768 - o.lo]

lightnessDistance(hsl, mid) == magnitude(lightnessOffset(hsl, mid))

\* score > bestScore, for the scores of two distances
closerThan(a, b) == a.hi < b.hi \/ (a.hi = b.hi /\ a.lo < b.lo)

\* variant that keeps the first valid candidate
recordFirstValid(acc, hsl, mid, candidate) ==
    IF acc.found THEN acc
    ELSE [acc EXCEPT !.found = TRUE, !.bestHex = candidate,
                     !.bestDistance = lightnessDistance(hsl, mid)]

\* if (valid) { if (score > bestScore) { ... } }
recordCandidate(acc, hsl, mid, candidate) ==
    IF ~acc.found \/ closerThan(lightnessDistance(hsl, mid), acc.bestDistance)
    THEN [acc EXCEPT !.found = TRUE, !.bestHex = candidate,
                     !.bestDistance = lightnessDistance(hsl, mid)]
    ELSE acc

\* the narrowing of [lo, hi] that ends an iteration
narrowRange(probed, hsl, bgHex, mid, textOk, btnOk) ==
    IF ~textOk
    THEN IF wcagLuminance(bgHex) > 5000000
         THEN [probed EXCEPT !.hi = mid]
         ELSE [probed EXCEPT !.lo = mid]
    ELSE IF ~btnOk THEN [probed EXCEPT !.hi = mid]
    ELSE IF lightnessOffset(hsl, mid).hi < 0 THEN [probed EXCEPT !.lo = mid]
    ELSE [probed EXCEPT !.hi = mid]

\* the candidate of an iteration judged: recorded when valid, and logged
judgeCandidate(acc, hsl, mid, candidate, valid) ==
    [(IF valid THEN recordCandidate(acc, hsl, mid, candidate) ELSE acc)
        EXCEPT !.probes = Append(@, [mid |-> mid, candidate |-> candidate, valid |-> valid])]

\* textC, btnC and valid of an iteration
checkCandidate(acc, hsl, bgHex, mid, candidate, textOk, btnOk) ==
    narrowRange(judgeCandidate(acc, hsl, mid, candidate, textOk /\ btnOk),
                hsl, bgHex, mid, textOk, btnOk)

\* const candidate = rgbToHex(hslToRgb({ h: hsl.h, s: hsl.s, l: mid }))
probeMidpoint(acc, hsl, bgHex, mid, candidate) ==
    checkCandidate(acc, hsl, bgHex, mid, candidate,
                   textContrastOk(candidate, bgHex), buttonContrastOk(candidate))

\* one iteration of the for loop
searchStep(acc, hsl, bgHex) ==
    probeMidpoint(acc, hsl, bgHex, (acc.lo + acc.hi) \div 2,
                  colorsRgbToHex(hslToRgb(hsl, (acc.lo + acc.hi) \div 2)))

\* for (let i = 0; i < 30; i++)
RECURSIVE searchLoop(_, _, _)
searchLoop(acc, hsl, bgHex) ==
    IF acc.i >= searchIterations THEN acc
    ELSE searchLoop([searchStep(acc, hsl, bgHex) EXCEPT !.i = @ + 1], hsl, bgHex)

\* variant whose best candidate starts as white instead of the seed
lightnessSearchDefaultWhite(brandHex, bgHex) ==
    searchLoop([i |-> 0, lo |-> 0, hi |-> Unit, bestHex |-> White, found |-> FALSE,
                bestDistance |-> [hi |-> 0, lo |-> 0], probes |-> <<>>],
               rgbToHsl(hexToRgb(brandHex)), bgHex)

\* the binary search on lightness of adjustBrandForContrast
lightnessSearch(brandHex, bgHex) ==
    searchLoop([i |-> 0, lo |-> 0, hi |-> Unit, bestHex |-> brandHex, found |-> FALSE,
                bestDistance |-> [hi |-> 0, lo |-> 0], probes |-> <<>>],
               rgbToHsl(hexToRgb(brandHex)), bgHex)

alreadyAccessible(brandHex, bgHex) ==
    textContrastOk(brandHex, bgHex) /\ buttonContrastOk(brandHex)

\* variant that returns the last probe when no probe was valid
adjustBrandForContrastLastMidpoint(brandHex, bgHex) ==
    IF alreadyAccessible(brandHex, bgHex) THEN brandHex
    ELSE LET s == lightnessSearch(brandHex, bgHex)
         IN IF s.found THEN s.bestHex ELSE s.probes[Len(s.probes)].candidate

\* adjustBrandForContrast(brandHex, bgHex) with the default thresholds
adjustBrandForContrast(brandHex, bgHex) ==
    IF alreadyAccessible(brandHex, bgHex) THEN brandHex
    ELSE lightnessSearch(brandHex, bgHex).bestHex

\* brand1, brand2, brand3 and brandSoft of an adjusted colour
brandRamp(adjusted, rgb) ==
    [brand1 |-> adjusted,
     brand2 |-> lighten(rgb, -20),
     brand3 |-> lighten(rgb, -40),
     brandSoft |-> <<rgb.r, rgb.g, rgb.b, 14>>]

\* the colours derived from the adjusted colour
brandRampOf(adjusted) == brandRamp(adjusted, hexToRgb(adjusted))

\* brandColors(hex, bgHex) with a background given
brandColors(hex, bgHex) == brandRampOf(adjustBrandForContrast(hex, bgHex))

----------------------------------------------------------------------------
(* adjustBrandForContrast on seed / background pairs                       *)

ContrastSeeds ==
    { <<"#", "f", "f", "0", "0", "0", "0">>,
      <<"#", "1", "a", "1", "a", "8", "0">>,
      <<"#", "c", "c", "c", "c", "f", "f">>,
      <<"#", "8", "A", "3", "8", "F", "5">>,
      <<"#", "d", "0", "b", "c", "f", "e">>,
      <<"#", "8", "0", "8", "0", "8", "0">>,
      <<"#", "0", "0", "0", "0", "0", "0">>,
      <<"#", "f", "f", "f", "f", "f", "f">>,
      <<"#", "6", "6", "8", "8", "c", "c">>,
      <<"#", "3", "3", "0", "0", "0", "0">>,
      <<"#", "0", "0", "f", "f", "0", "0">>,
      <<"#", "7", "f", "7", "f", "0", "0">>,
      <<"#", "1", "2", "3", "4", "5", "6">>,
      <<"#", "f", "e", "d", "c", "b", "a">> }

ContrastBackgrounds ==
    { <<"#", "0", "0", "0", "0", "0", "0">>,
      <<"#", "1", "4", "1", "2", "1", "8">>,
      <<"#", "2", "0", "2", "0", "2", "0">>,
      <<"#", "4", "0", "4", "0", "4", "0">>,
      <<"#", "8", "0", "8", "0", "8", "0">>,
      <<"#", "c", "0", "c", "0", "c", "0">>,
      <<"#", "f", "f", "f", "f", "f", "f">>,
      <<"#", "0", "a", "0", "a", "2", "3">> }

EmptyFile == ExportFile(0, 0, 0, FALSE, FALSE)

RunAdjustBrandForContrast ==
    /\ pass = "idle"
    /\ pass' = "adjustBrandForContrast"
    /\ \E seed \in ContrastSeeds, bg \in ContrastBackgrounds :
          result' = [seed |-> seed, bg |-> bg,
                     out |-> adjustBrandForContrast(seed, bg),
                     probes |-> IF alreadyAccessible(seed, bg) THEN <<>>
                                ELSE lightnessSearch(seed, bg).probes,
                     again |-> <<>>]
    /\ UNCHANGED <<fileData, walkRoot, runVars>>

\* the result is passed through the function a second time
RunAdjustAgain ==
    /\ pass = "adjustBrandForContrast"
    /\ pass' = "adjustedAgain"
    /\ result' = [result EXCEPT !.again = adjustBrandForContrast(result.out, result.bg)]
    /\ UNCHANGED <<fileData, walkRoot, runVars>>

InitContrast == RunInit({EmptyFile})
NextContrast == RunAdjustBrandForContrast \/ RunAdjustAgain
SpecContrast == InitContrast /\ [][NextContrast]_vars

Adjusted == pass = "adjustBrandForContrast"

Searched == Adjusted /\ result.probes # <<>>

ValidProbes == {k \in DOMAIN result.probes : result.probes[k].valid}

SeedHsl == rgbToHsl(hexToRgb(result.seed))

ProbeDistance(k) == lightnessDistance(SeedHsl, result.probes[k].mid)

\* C12: the adjusted colour has contrast >= 4.5 against the background and
\* >= 3.0 against white, or it is the seed returned unchanged because the
\* seed already satisfied both.
C12_ResultMeetsContrast ==
    Adjusted =>
        \/ textContrastOk(result.out, result.bg) /\ buttonContrastOk(result.out)
        \/ result.out = result.seed /\ alreadyAccessible(result.seed, result.bg)

\* C13: adjusting the adjusted colour again, against the same background,
\* returns it unchanged.
C13_Idempotent == pass = "adjustedAgain" => result.again = result.out

C13_Witness ==
    /\ pass = "adjustedAgain"
    /\ result.out # result.seed
    /\ result.again = result.out

\* C17 as stated: when no probed midpoint satisfies both constraints, the
\* colour of the last midpoint tried is returned.
C17_ReturnsLastMidpoint ==
    (Searched /\ ValidProbes = {})
        => result.out = result.probes[Len(result.probes)].candidate

\* C17 as the code has it: when no probed midpoint satisfies both constraints,
\* all 30 midpoints have been probed and the seed is returned unchanged.
C17_ReturnsSeedWhenNoneValid ==
    (Searched /\ ValidProbes = {})
        => Len(result.probes) = searchIterations /\ result.out = result.seed

C17_Witness ==
    /\ Searched
    /\ ValidProbes = {}
    /\ result.out = result.seed
    /\ result.probes[Len(result.probes)].candidate # result.seed

\* C18: an adjusted seed comes back as the candidate of the valid probe whose
\* lightness is closest to the seed's; of equally close valid probes the
\* earliest is kept.
C18_ClosestValidProbe ==
    (Searched /\ ValidProbes # {})
        => \E k \in ValidProbes :
              /\ result.out = result.probes[k].candidate
              /\ \A j \in ValidProbes :
                    /\ ~closerThan(ProbeDistance(j), ProbeDistance(k))
                    /\ ProbeDistance(j) = ProbeDistance(k) => k <= j

C18_Witness ==
    /\ Searched
    /\ \E j, k \in ValidProbes :
          /\ j < k
          /\ closerThan(ProbeDistance(k), ProbeDistance(j))
          /\ result.out = result.probes[k].candidate
          /\ result.out # result.probes[j].candidate

----------------------------------------------------------------------------
(* deriveTheme                                                             *)

MaxPalette == 4     \* keys of tokens.colors

fallbackAccent == <<"#", "d", "0", "b", "c", "f", "e">>

\* const fallbackLightBrand = brandColors(fallbackAccent, '#ffffff')
fallbackLightBrand == brandColors(fallbackAccent, <<"#", "f", "f", "f", "f", "f", "f">>)

\* the fallback record around its light-mode brand
fallbackWith(light) ==
    [bg |-> <<"#", "1", "4", "1", "2", "1", "8">>,
     bgSurface |-> <<"#", "1", "d", "1", "b", "2", "0">>,
     bgElevated |-> <<"#", "2", "3", "2", "0", "2", "8">>,
     bgMute |-> <<"#", "2", "b", "2", "9", "3", "0">>,
     bgSoft |-> <<"#", "2", "1", "1", "f", "2", "6">>,
     textPrimary |-> <<"#", "e", "6", "e", "0", "e", "9">>,
     textSecondary |-> <<"#", "c", "a", "c", "4", "d", "0">>,
     textMuted |-> <<"#", "9", "3", "8", "f", "9", "9">>,
     accent |-> fallbackAccent,
     accentDark |-> <<"#", "3", "8", "1", "e", "7", "2">>,
     border |-> <<"#", "4", "9", "4", "5", "4", "f">>,
     success |-> <<"#", "a", "8", "d", "b", "8", "f">>,
     vpBrand1 |-> fallbackAccent,
     vpBrand2 |-> <<"#", "b", "6", "9", "d", "f", "8">>,
     vpBrand3 |-> <<"#", "9", "a", "8", "2", "d", "b">>,
     vpBrandSoft |-> <<208, 188, 254, 14>>,
     vpBrand1Light |-> light.brand1,
     vpBrand2Light |-> light.brand2,
     vpBrand3Light |-> light.brand3,
     vpBrandSoftLight |-> light.brandSoft,
     accentLight |-> light.brand1,
     accentDarkLight |-> light.brand3]

fallback == fallbackWith(fallbackLightBrand)

\* variant that keeps every key
validHexesUnfiltered(hexes) == hexes

\* hexes.filter(h => /^#[0-9a-fA-F]{6}$/.test(h))
validHexes(hexes) == SelectSeq(hexes, isHex6)

\* the stable Array.prototype.sort by luminance(a) - luminance(b), one element inserted
insertAt(sorted, h, at) ==
    SubSeq(sorted, 1, at) \o <<h>> \o SubSeq(sorted, at + 1, Len(sorted))

insertAfter(sorted, h, before) ==
    insertAt(sorted, h, IF before = {} THEN 0 ELSE CHOOSE k \in before : \A j \in before : j <= k)

insertByLuminance(sorted, h) ==
    insertAfter(sorted, h, {k \in DOMAIN sorted : luminance(sorted[k]) <= luminance(h)})

RECURSIVE sortByLuminance(_)
sortByLuminance(hexes) ==
    IF hexes = <<>> THEN <<>>
    ELSE insertByLuminance(sortByLuminance(SubSeq(hexes, 1, Len(hexes) - 1)), hexes[Len(hexes)])

\* sorted.slice(Math.floor(sorted.length * 0.2), Math.ceil(sorted.length * 0.8))
midRange(sorted) ==
    SubSeq(sorted, (Len(sorted) \div 5) + 1, (4 * Len(sorted) + 4) \div 5)

\* for (const h of midRange) { const s = saturation(h); if (s > maxSat) { ... } }
\* if (s > maxSat) { maxSat = s; accent = h; }
keepMoreSaturated(best, h, s) ==
    IF s.num * best.maxSat.den > best.maxSat.num * s.den
    THEN [accent |-> h, maxSat |-> s] ELSE best

RECURSIVE mostSaturated(_, _, _)
mostSaturated(range, k, best) ==
    IF k > Len(range) THEN best
    ELSE mostSaturated(range, k + 1, keepMoreSaturated(best, range[k], saturation(range[k])))

\* the accent before the mode-specific adjustments
\* if (maxSat < 0.1) accent = fallback.accent, then the override by brandColor
chosenAccent(picked, brandColor) ==
    IF brandColor # <<>> /\ isHex6(brandColor) THEN brandColor
    ELSE IF 10 * picked.maxSat.num < picked.maxSat.den THEN fallbackAccent
    ELSE picked.accent

rawAccent(sorted, brandColor) ==
    chosenAccent(mostSaturated(midRange(sorted), 1,
                               [accent |-> fallbackAccent, maxSat |-> [num |-> 0, den |-> 1]]),
                 brandColor)

\* variant that derives the light-mode brand from the dark-mode accent
lightBrandFromDarkAccent(raw, accent) == brandColors(accent, <<"#", "f", "f", "f", "f", "f", "f">>)

\* const lightBrand = brandColors(rawAccent, '#ffffff')
lightBrand(raw, accent) == brandColors(raw, <<"#", "f", "f", "f", "f", "f", "f">>)

\* the returned record
themeRecord(darkest, lightest, darkRgb, accent, light) ==
    [bg |-> darkest,
     bgSurface |-> lighten(darkRgb, 10),
     bgElevated |-> lighten(darkRgb, 18),
     bgMute |-> lighten(darkRgb, 26),
     bgSoft |-> lighten(darkRgb, 8),
     textPrimary |-> lightest,
     textSecondary |-> IF luminance(lightest) > 178500
                       THEN lighten(hexToRgb(lightest), -30) ELSE lightest,
     textMuted |-> IF luminance(lightest) > 127500
                   THEN lighten(hexToRgb(lightest), -70) ELSE <<"#", "9", "3", "8", "f", "9", "9">>,
     accent |-> accent,
     accentDark |-> lighten(hexToRgb(accent), -60),
     border |-> lighten(darkRgb, 40),
     success |-> <<"#", "a", "8", "d", "b", "8", "f">>,
     vpBrand1 |-> accent,
     vpBrand2 |-> lighten(hexToRgb(accent), -20),
     vpBrand3 |-> lighten(hexToRgb(accent), -40),
     vpBrandSoft |-> <<hexToRgb(accent).r, hexToRgb(accent).g, hexToRgb(accent).b, 14>>,
     vpBrand1Light |-> light.brand1,
     vpBrand2Light |-> light.brand2,
     vpBrand3Light |-> light.brand3,
     vpBrandSoftLight |-> light.brandSoft,
     accentLight |-> light.brand1,
     accentDarkLight |-> light.brand3]

\* the light-mode brand and the surface colours, once the dark accent is adjusted
themeOfAccent(darkest, lightest, raw, accent) ==
    themeRecord(darkest, lightest, hexToRgb(darkest), accent, lightBrand(raw, accent))

\* accent = adjustBrandForContrast(rawAccent, darkest)
themeOfRaw(darkest, lightest, raw) ==
    themeOfAccent(darkest, lightest, raw, adjustBrandForContrast(raw, darkest))

\* deriveTheme from the luminance-sorted valid keys on
themeOfSorted(sorted, brandColor) ==
    IF Len(sorted) < 3 THEN fallback
    ELSE themeOfRaw(sorted[1], sorted[Len(sorted)], rawAccent(sorted, brandColor))

deriveTheme(hexes, brandColor) ==
    IF Len(hexes) < 3 THEN fallback
    ELSE themeOfSorted(sortByLuminance(validHexes(hexes)), brandColor)

\* keys that tokens.colors can hold: four colours and a three-digit key
PaletteKeys ==
    { <<"#", "2", "0", "2", "0", "2", "0">>, <<"#", "8", "0", "8", "0", "8", "0">>, <<"#", "d", "3", "2", "f", "2", "f">>,
      <<"#", "f", "f", "f", "f", "f", "f">>, <<"#", "f", "f", "f">> }

RECURSIVE PalettesOfLength(_)
PalettesOfLength(n) ==
    IF n = 0 THEN {<<>>}
    ELSE {Append(p, h) : p \in PalettesOfLength(n - 1), h \in PaletteKeys}

\* Object.keys(tokens.colors): pairwise distinct keys in insertion order
Palettes ==
    {p \in UNION {PalettesOfLength(n) : n \in 0..MaxPalette} :
        \A j, k \in DOMAIN p : j # k => p[j] # p[k]}

\* --brand-color: absent, a valid colour, or a value the pattern rejects
BrandColors == {<<>>, <<"#", "8", "a", "3", "8", "f", "5">>, <<"#", "f", "f", "f">>}

RunDeriveTheme ==
    /\ pass = "idle"
    /\ pass' = "deriveTheme"
    /\ \E hexes \in Palettes, brandColor \in BrandColors :
          result' = [hexes |-> hexes, brandColor |-> brandColor,
                     raw |-> IF Len(validHexes(hexes)) < 3 THEN <<>>
                             ELSE rawAccent(sortByLuminance(validHexes(hexes)), brandColor),
                     theme |-> deriveTheme(hexes, brandColor)]
    /\ UNCHANGED <<fileData, walkRoot, runVars>>

InitTheme == RunInit({EmptyFile})
NextTheme == RunDeriveTheme
SpecTheme == InitTheme /\ [][NextTheme]_vars

Derived == pass = "deriveTheme"

ValidKeys == {k \in DOMAIN result.hexes : isHex6(result.hexes[k])}

ValidColours == {result.hexes[k] : k \in ValidKeys}

SeedGiven == result.brandColor # <<>> /\ isHex6(result.brandColor)

LightFields(theme) ==
    <<theme.vpBrand1Light, theme.vpBrand2Light, theme.vpBrand3Light,
      theme.vpBrandSoftLight, theme.accentLight, theme.accentDarkLight>>

\* C14: with at least 3 valid colours the dark-mode accent has contrast >= 4.5
\* against the theme's background root and >= 3.0 against white, and the
\* light-mode accent has contrast >= 4.5 against white.
C14_AccentsMeetContrast ==
    (Derived /\ Cardinality(ValidKeys) >= 3)
        => /\ textContrastOk(result.theme.accent, result.theme.bg)
           /\ buttonContrastOk(result.theme.accent)
           /\ textContrastOk(result.theme.accentLight, <<"#", "f", "f", "f", "f", "f", "f">>)

\* C15: with fewer than 3 valid 6-digit keys in the palette the result is the
\* fallback theme, whatever the seed.
C15_FallbackExact ==
    (Derived /\ Cardinality(ValidKeys) < 3) => result.theme = fallback

C15_Witness ==
    /\ Derived
    /\ Len(result.hexes) >= 3
    /\ Cardinality(ValidKeys) = 2
    /\ SeedGiven
    /\ result.theme = fallback
    /\ result.theme.accentLight = <<"#", "8", "6", "5", "3", "f", "c">>

\* positions of the luminance-sorted list that lie within its 20th to 80th percentile
MiddleSixty(sorted) ==
    {k \in DOMAIN sorted : 5 * (k - 1) >= Len(sorted) /\ 5 * k <= 4 * Len(sorted)}

MoreSaturated(a, b) ==
    saturation(a).num * saturation(b).den > saturation(b).num * saturation(a).den

\* C19: the background root is the valid colour of least luminance, the text
\* root the one of greatest; without a valid seed the raw accent is a colour of
\* maximum saturation among the middle 60% of the sorted list, darkest and
\* lightest excluded, or the fallback accent when that saturation is below 0.1;
\* a valid seed replaces it.
C19_AccentFromMiddle ==
    (Derived /\ Cardinality(ValidKeys) >= 3)
        => LET sorted == sortByLuminance(validHexes(result.hexes))
               middle == {sorted[k] : k \in MiddleSixty(sorted)}
           IN /\ result.theme.bg \in ValidColours
              /\ \A h \in ValidColours : luminance(result.theme.bg) <= luminance(h)
              /\ result.theme.textPrimary \in ValidColours
              /\ \A h \in ValidColours : luminance(h) <= luminance(result.theme.textPrimary)
              /\ SeedGiven => result.raw = result.brandColor
              /\ ~SeedGiven =>
                    IF \A h \in middle : 10 * saturation(h).num < saturation(h).den
                    THEN result.raw = fallbackAccent
                    ELSE /\ result.raw \in middle
                         /\ \A h \in middle : ~MoreSaturated(h, result.raw)

\* palettes with different background roots and the same most saturated colour
ComparisonPalettes ==
    { <<<<"#", "2", "0", "2", "0", "2", "0">>, <<"#", "d", "3", "2", "f", "2", "f">>, <<"#", "f", "f", "f", "f", "f", "f">>>>,
      <<<<"#", "d", "3", "2", "f", "2", "f">>, <<"#", "8", "0", "8", "0", "8", "0">>, <<"#", "f", "f", "f", "f", "f", "f">>>> }

----------------------------------------------------------------------------
(* Claims about the batching and the order of the export requests          *)

ComponentKinds == {"png", "svg"}

NodeIdsOf(list) == {list[k].nodeId : k \in DOMAIN list}

\* an export-URL request of a new batch is issued in this step
RequestIssued(kind) ==
    pc' = ExportPhase(kind) /\ (pc # pc' \/ batchStart' # batchStart)

\* the export-URL request of the current batch is settled in this step
RequestSettled(kind) ==
    pc = ExportPhase(kind) /\ (pc # pc' \/ batchStart' # batchStart)

ExportsOver == pc \in {"writeMd", "writeTokens", "writeManifest", "resolved"}

C22_State ==
    /\ NodeIdsOf(uiComponents(fileData)) \cap NodeIdsOf(icons(fileData)) = {}
    /\ NodeIdsOf(uiComponents(fileData)) \cup NodeIdsOf(icons(fileData))
          = NodeIdsOf(extractComponents(fileData).components)
    /\ \A c \in Range(uiComponents(fileData)) : ~isIcon(c)
    /\ \A c \in Range(icons(fileData)) : isIcon(c)
    /\ \A kind \in ComponentKinds :
          pc = ExportPhase(kind) =>
              /\ Cardinality(Batch(fileData, kind, batchStart)) \in 1..BatchSize
              /\ Cardinality(Range(requestIds(fileData, kind, batchStart)))
                    = Cardinality(Batch(fileData, kind, batchStart))
    /\ ExportsOver => \A kind \in ComponentKinds :
                         \A k \in DOMAIN dl[kind] : dl[kind][k] # "todo"

C22_Step ==
    \A kind \in ComponentKinds :
        /\ RequestIssued(kind) =>
              \A k \in DOMAIN dl[kind] :
                  IF k \in Batch(fileData, kind, batchStart')
                  THEN dl[kind][k] = "todo" /\ dl'[kind][k] = "todo"
                  ELSE (k <= batchStart') <=> (dl'[kind][k] # "todo")
        /\ RequestSettled(kind) =>
              \A k \in Batch(fileData, kind, batchStart) : dl'[kind][k] # "todo"

\* C22: every export-URL request of the component and icon exports carries
\* between one and BatchSize distinct node ids; a component is an icon or a
\* UI component, never both; a request is issued only for positions never
\* requested before, and when the exports are over every position of both
\* lists has been requested.
C22_BatchesPartitionExportLists == []C22_State /\ [][C22_Step]_vars

C22_Witness ==
    /\ pc = "compUrls" /\ InFlight
    /\ batchStart = BatchSize
    /\ Batch(fileData, "png", batchStart) # {}
    /\ \A k \in 1..BatchSize : dl["png"][k] \notin {"todo", "lost"}

\* positions of the export list whose download closure awaits axios or fs
Downloading(kind) == {k \in DOMAIN dl[kind] : dl[kind][k] \in {"get", "write"}}

C23_State ==
    /\ \A kind \in ComponentKinds :
          /\ Downloading(kind) # {} => pc = DownloadPhase(kind)
          /\ Downloading(kind) \subseteq Batch(fileData, kind, batchStart)
    /\ Cardinality(Downloading("png")) + Cardinality(Downloading("svg")) <= BatchSize

C23_Step ==
    \A kind \in ComponentKinds :
        RequestIssued(kind) =>
            /\ Downloading("png") = {} /\ Downloading("svg") = {}
            /\ \A k \in DOMAIN dl[kind] :
                  k <= batchStart' => dl'[kind][k] \in {"nourl", "ok", "failed", "lost"}

\* C23: in the component and icon exports the request of a batch is issued
\* only when every download of the earlier batches has settled; the downloads
\* in flight all belong to the current batch, so they are at most BatchSize.
C23_BatchesNeverOverlap == []C23_State /\ [][C23_Step]_vars

C23_Witness ==
    /\ pc = "compDl" /\ batchStart = BatchSize
    /\ Downloading("png") # {}
    /\ \E k, j \in 1..BatchSize : dl["png"][k] = "ok" /\ dl["png"][j] = "failed"

----------------------------------------------------------------------------
(* Claims about the order of the phases of extract()                       *)

\* the phases in program order; the batches of one export loop alternate
\* between its request and its downloads
PhaseOrder ==
    <<{"start"}, {"fetchFile"}, {"fetchNodes"}, {"fetchVars"}, {"frameUrls"}, {"frameDl"},
      {"compUrls", "compDl"}, {"iconUrls", "iconDl"}, {"writeMd"}, {"writeTokens"},
      {"writeManifest"}, {"resolved"}, {"rejected"}>>

PhaseRank(p) == CHOOSE k \in DOMAIN PhaseOrder : p \in PhaseOrder[k]

Settled(kind) ==
    \A k \in DOMAIN dl[kind] : dl[kind][k] \in {"nourl", "ok", "failed", "lost"}

Untouched(kind) == \A k \in DOMAIN dl[kind] : dl[kind][k] = "todo"

C24_State ==
    /\ pc \in UNION Range(PhaseOrder)
    /\ pc \in {"start", "fetchFile", "fetchNodes", "fetchVars"} =>
          Untouched("frame") /\ Untouched("png") /\ Untouched("svg") /\ docs = {}
    /\ pc \in {"frameUrls", "frameDl"} => Untouched("png") /\ Untouched("svg")
    /\ Downloading("frame") # {} => pc \in {"frameDl", "rejected"}
    /\ pc \in {"compUrls", "compDl"} => Settled("frame") /\ Untouched("svg")
    /\ pc \in {"iconUrls", "iconDl"} => Settled("frame") /\ Settled("png")
    /\ docs # {} =>
          /\ Settled("frame") /\ Settled("png") /\ Settled("svg")
          /\ pc \in {"writeTokens", "writeManifest", "resolved"}
    /\ pc \notin ApiPhases => ~InFlight

C24_Step ==
    /\ PhaseRank(pc') >= PhaseRank(pc)
    /\ (pc' = "fetchFile" /\ pc # "fetchFile") => pc = "start"
    /\ (pc' = "fetchNodes" /\ pc # "fetchNodes") => pc = "fetchFile"
    /\ (pc' = "fetchVars" /\ pc # "fetchVars") => pc \in {"fetchFile", "fetchNodes"}

\* C24: the phases of extract() follow one another in the order file fetch,
\* secondary node fetch, variables, frame screenshots, component images,
\* icons, documents, never going back; an export starts with the earlier
\* exports settled and the later ones untouched, and a document is written
\* only with every export settled.
C24_PhasesInSequence == []C24_State /\ [][C24_Step]_vars

C24_Witness ==
    /\ pc = "iconDl" /\ Downloading("svg") # {}
    /\ Len(uiComponents(fileData)) > 0
    /\ Settled("png")
    /\ docs = {}

----------------------------------------------------------------------------
(* Termination of extract(): every pending network call, timer and file    *)
(* operation settles and the event loop runs the continuation, so a step   *)
(* that is possible is eventually taken.                                   *)

SpecLive == Init /\ [][Next]_vars /\ WF_vars(Next)

Resolved == pc = "resolved" /\ "manifest.json" \in docs /\ rejection = NoError
Rejected == pc = "rejected" /\ rejection # NoError

\* C25: every run of extract() whose pending operations all settle reaches
\* the end, resolved with the manifest written or rejected with an error.
C25_Terminates == <>(Resolved \/ Rejected)

C25_Witness ==
    /\ Resolved
    /\ \E k, j \in DOMAIN dl["png"] : dl["png"][k] = "lost" /\ dl["png"][j] = "ok"

----------------------------------------------------------------------------
(* Claims about the waits of fetchWithRetry                                *)

\* attempt number `calls` of the current call fails in this step
AttemptFails == InFlight /\ lastStatus' \in Statuses

C26_Step ==
    /\ AttemptFails =>
          /\ (calls < maxRetries /\ lastStatus' = 429) => sleep' = delay * calls * 2
          /\ (calls < maxRetries /\ lastStatus' >= 500) => sleep' = delay * calls
          /\ (calls < maxRetries /\ lastStatus' # 429 /\ lastStatus' < 500) => sleep' = 0
          /\ calls = maxRetries => sleep' = 0
          /\ sleep' = 0 => thrown' # NoError
    /\ (sleep = 0 /\ sleep' > 0) => AttemptFails
    /\ (pc' \in ApiPhases /\ pc' # pc) => calls' = 1 /\ sleep' = 0 /\ lastStatus' = -1
    /\ (sleep > 0 /\ sleep' # sleep) => sleep' = 0 /\ calls' = calls + 1 /\ lastStatus' = -1

\* C26: after the failure of attempt k < maxRetries, fetchWithRetry sleeps
\* delay * k * 2 on status 429 and delay * k on a status >= 500, and the
\* next attempt follows the sleep; the first attempt starts without a sleep
\* and the failure of the last attempt is thrown without one.
C26_BackoffDelays == [][C26_Step]_vars

C26_Witness ==
    /\ pc \in ApiPhases /\ calls = 2 /\ lastStatus = 429
    /\ sleep = delay * 2 * 2

----------------------------------------------------------------------------
(* Claims about extractComponentStyles                                     *)

StyleExtracted == pass = "extractComponentStyles"

SetGiven == NodeOf(fileData, walkRoot).type = "COMPONENT_SET"

ProperDescendants == Subtree(fileData, walkRoot) \ {walkRoot}

\* the values that the attributes of the given nodes stand for
HexesOn(nodes) ==
    { rgbToHex(p.color) :
        p \in { q \in UNION { Range(NodeOf(fileData, n).fills)
                                \cup Range(NodeOf(fileData, n).strokes) : n \in nodes } :
                    countsAsColor(q) } }

RadiiOn(nodes) ==
    { roundParts(NodeOf(fileData, n).rectangleCornerRadii) :
        n \in { m \in nodes : NodeOf(fileData, m).rectangleCornerRadii # <<>> } }
    \cup
    { <<mathRound(NodeOf(fileData, n).cornerRadius)>> :
        n \in { m \in nodes : /\ NodeOf(fileData, m).rectangleCornerRadii = <<>>
                               /\ NodeOf(fileData, m).cornerRadius > 0 } }

EffectsOn(nodes) ==
    { effectValue(e) :
        e \in { d \in UNION { Range(NodeOf(fileData, n).effects) : n \in nodes } :
                    d.visible # "false" } }

NoRepeats(list) == \A a, b \in DOMAIN list : a # b => list[a] # list[b]

RadiiAscending(radii) ==
    \A a, b \in DOMAIN radii : a < b => primaryCorner(radii[a]) <= primaryCorner(radii[b])

\* C28: no collection of the returned style holds two entries equal by
\* value, and the radii ascend by their first corner.
C28_NoEqualEntries ==
    StyleExtracted =>
        /\ NoRepeats(result.colors)
        /\ NoRepeats(result.radii)
        /\ NoRepeats(result.effects)
        /\ RadiiAscending(result.radii)

\* what does hold of the collections: colours and radii without repeats,
\* radii ascending, effects without repeated source objects
ColoursAndRadiiDistinct ==
    StyleExtracted =>
        /\ NoRepeats(result.colors)
        /\ NoRepeats(result.radii)
        /\ RadiiAscending(result.radii)

----------------------------------------------------------------------------
(* Claims about the asset file paths                                       *)

PathOf(kind, k) == assetPath(kind, listOf(fileData, kind)[k].name)

\* C29: two downloads that await fs.writeFile at the same time write to
\* different paths, and distinct components of an export list have distinct
\* asset paths.
C29_DistinctAssetPaths ==
    \A kind \in ComponentKinds :
        \A k, j \in DOMAIN dl[kind] :
            (k # j /\ dl[kind][k] = "write" /\ dl[kind][j] = "write")
                => PathOf(kind, k) # PathOf(kind, j)

----------------------------------------------------------------------------
(* genCustomCSS and patchBrandCSS.  The style sheet is kept as its two     *)
(* sections, the text before the first ".dark" and the text from it on,    *)
(* each as the values of the custom properties that the patch reads or     *)
(* writes, plus one property it leaves alone.                              *)

\* the template of theme/custom.css
genCustomCSS(theme) ==
    [root |-> [dadBg |-> theme.bg,
               dadAccent |-> theme.accentLight,
               dadAccentDark |-> theme.accentDarkLight,
               dadBorder |-> theme.border,
               vpBrand1 |-> theme.vpBrand1Light,
               vpBrand2 |-> theme.vpBrand2Light,
               vpBrand3 |-> theme.vpBrand3Light,
               vpBrandSoft |-> theme.vpBrandSoftLight],
     dark |-> [vpDivider |-> theme.border,
               dadAccent |-> theme.accent,
               dadAccentDark |-> theme.accentDark,
               vpBrand1 |-> theme.vpBrand1,
               vpBrand2 |-> theme.vpBrand2,
               vpBrand3 |-> theme.vpBrand3,
               vpBrandSoft |-> theme.vpBrandSoft]]

\* the six section.replace calls
patchSection(section, colors) ==
    [section EXCEPT !.vpBrand1 = colors.brand1,
                    !.vpBrand2 = colors.brand2,
                    !.vpBrand3 = colors.brand3,
                    !.vpBrandSoft = colors.brandSoft,
                    !.dadAccent = colors.brand1,
                    !.dadAccentDark = colors.brand3]

\* brandColors(brandColor, darkBgHex), darkBgHex the value of the first
\* --dad-bg when it is a six-digit hex colour, null otherwise
darkColors(dadBg, brandColor) ==
    IF isHex6(dadBg) THEN brandColors(brandColor, dadBg) ELSE brandRampOf(brandColor)

patchBrandCSS(css, brandColor) ==
    [root |-> patchSection(css.root, brandColors(brandColor, <<"#", "f", "f", "f", "f", "f", "f">>)),
     dark |-> patchSection(css.dark, darkColors(css.root.dadBg, brandColor))]

\* valid values of the brand colour
PatchColors ==
    { <<"#", "8", "a", "3", "8", "f", "5">>, <<"#", "1", "a", "1", "a", "8", "0">> }

patchRun(hexes, brandColor, css) ==
    [hexes |-> hexes, brandColor |-> brandColor, css |-> css,
     patched |-> patchBrandCSS(css, brandColor)]

\* the site is generated with the brand colour, then the patch is applied
\* to the generated style sheet with the same colour
RunPatchBrandCSS ==
    /\ pass = "idle"
    /\ pass' = "patchBrandCSS"
    /\ \E hexes \in Palettes, brandColor \in PatchColors :
          result' = patchRun(hexes, brandColor, genCustomCSS(deriveTheme(hexes, brandColor)))
    /\ UNCHANGED <<fileData, walkRoot, runVars>>

InitPatch == RunInit({EmptyFile})
NextPatch == RunPatchBrandCSS
SpecPatch == InitPatch /\ [][NextPatch]_vars

Patched == pass = "patchBrandCSS"

\* C30: the patch applied to the generated style sheet, with the brand
\* colour the sheet was generated with, returns the sheet unchanged.
C30_PatchAgreesWithGeneration == Patched => result.patched = result.css

\* what does hold: with three valid colours or more the patch changes
\* nothing but --dad-accent-dark of the dark section
PatchAgreesBesidesAccentDark ==
    (Patched /\ Cardinality(ValidKeys) >= 3) =>
        /\ result.patched.root = result.css.root
        /\ [result.patched.dark EXCEPT !.dadAccentDark = result.css.dark.dadAccentDark]
              = result.css.dark

============================================================================
